---- MODULE Spec2Model ----
(***************************************************************************)
(* A model of the hand-written core of the ESC SDKs: the annotated value   *)
(* tree and its projection to plain values (Go, C#, TypeScript), and the   *)
(* change-gate eligibility codec (Go).                                     *)
(*                                                                         *)
(* Every value is a tuple whose first element is a tag, so that values of  *)
(* different kinds can always be compared:                                 *)
(*   <<"null">>            JSON null / Go nil / C# null                    *)
(*   <<"str", s>>          a string                                        *)
(*   <<"num", n>>          a JSON number / Go float64                      *)
(*   <<"double", n>>       a C# double       <<"long", n>>  a C# Int64     *)
(*   <<"big", k>>          the number 2^63 + k, past the largest Int64:    *)
(*                         as a JSON number an integer literal, as a Go    *)
(*                         float64 or a C# <<"doubleBig", k>> a double     *)
(*   <<"frac", t>>         the number t/10, written with a fraction part;  *)
(*                         <<"doubleFrac", t>> as a C# double              *)
(*   <<"bool", b>>         a boolean                                       *)
(*   <<"arr", seq>>        a JSON array / Go []any / C# List<object?>      *)
(*   <<"obj", f>>          a JSON object / Go map[string]any /             *)
(*                         C# Dictionary<string, object?>                  *)
(*   <<"mapV", f>>         Go map[string]Value / C# Dictionary<string,Value>*)
(*   <<"JsonElement", j>>  a C# JsonElement holding the JSON value j       *)
(*   <<"Value", payload, secret, unknown, trace>>   an annotated node      *)
(*   <<"Trace", def, base>>, <<"Range", env, begin, end>>,                 *)
(*   <<"Pos", line, column, byte>>                                         *)
(*   <<"panic">>           the call panicked                               *)
(***************************************************************************)
EXTENDS Integers, Sequences, FiniteSets, TLC

VARIABLES
    given,      \* what the last call of a helper was handed
    returned,   \* what that call returned: a value or an error
    wire,       \* properties of the environment as sent by the service (JSON object)
    op,         \* the operation that ran last ("idle" before any)
    before,     \* the annotated tree the operation projected, as it was before projecting
    held,       \* the same annotated tree as the caller holds it after the operation
    out,        \* the plain values the operation returned
    propertyPath, \* the path handed to the last read of one property
    found,      \* the node, or the exception, the navigation of that path ended with
    rules,      \* ApprovalRuleEligibilityBuilder.rules
    lastConfig, \* the configuration handed to the last create/update gate call
    payload,    \* the JSON body of the last create/update gate request
    response,   \* the JSON body the service answered with
    result      \* what the gate call returned: a gate or an error

vars == <<given, returned, wire, op, before, held, out, propertyPath, found, rules, lastConfig, payload, response, result>>

-----------------------------------------------------------------------------
(* Bounds *)

\* Largest number of annotated nodes in one environment.
MaxNodes == 3

\* Largest number of segments of a property path.
MaxSegments == 3

\* Largest number of rules added to one builder.
MaxRules == 3

\* Largest number of elements of a response's eligibleApprovers array.
MaxApprovers == 3

\* Largest number of children of the mapping or sequence in a response that need
\* not come from the service as the SDK expects it.
MaxChildren == 2

-----------------------------------------------------------------------------
(* Values *)

Nil == <<"null">>
Panic == <<"panic">>
JStr(s) == <<"str", s>>
JNum(n) == <<"num", n>>
JBool(b) == <<"bool", b>>
JArr(s) == <<"arr", s>>
JObj(f) == <<"obj", f>>
Kind(v) == v[1]

EmptyMap == [k \in {} |-> Nil]

\* data[key] with the comma-ok form: is the key there?
HasKey(data, key) == Kind(data) = "obj" /\ key \in DOMAIN data[2]

\* data[key] of a Go map (nil for a missing key or a nil map)
Index(data, key) == IF HasKey(data, key) THEN data[2][key] ELSE Nil

\* The sequences of at most n elements of S
RECURSIVE SeqsUpTo(_, _)
SeqsUpTo(S, n) ==
    IF n = 0 THEN {<<>>}
    ELSE SeqsUpTo(S, n - 1) \cup {Append(s, x) : s \in SeqsUpTo(S, n - 1), x \in S}

\* The double nearest to 2^63 + k: between 2^63 and 2^64 the doubles are 2^11 apart
NearestDouble(k) == 2048 * ((k + 1024) \div 2048)

\* encoding/json into interface{}, and JSON.parse: every number becomes a double
RECURSIVE Unmarshal(_)
Unmarshal(j) ==
    CASE Kind(j) = "big" -> <<"big", NearestDouble(j[2])>>
      [] Kind(j) = "arr" -> JArr([i \in 1..Len(j[2]) |-> Unmarshal(j[2][i])])
      [] Kind(j) = "obj" -> JObj([k \in DOMAIN j[2] |-> Unmarshal(j[2][k])])
      [] OTHER -> j

\* Does evaluating v have hit a panic somewhere?
RECURSIVE HasPanic(_)
HasPanic(v) ==
    CASE Kind(v) = "panic" -> TRUE
      [] Kind(v) = "Value" -> HasPanic(v[2]) \/ HasPanic(v[5])
      [] Kind(v) = "Trace" -> HasPanic(v[2]) \/ HasPanic(v[3])
      [] Kind(v) = "arr" -> \E i \in 1..Len(v[2]) : HasPanic(v[2][i])
      [] Kind(v) \in {"obj", "mapV"} -> \E k \in DOMAIN v[2] : HasPanic(v[2][k])
      [] OTHER -> FALSE

-----------------------------------------------------------------------------
(* Go: building the annotated tree from the decoded JSON *)

getMapSafe(data) == IF Kind(data) = "obj" THEN data ELSE Nil

getBoolPtr(data, key) ==
    IF HasKey(data, key) /\ Kind(data[2][key]) = "bool" THEN data[2][key] ELSE Nil

\* data["line"].(float64) with the comma-ok form
Float64Of(data, key) == IF Kind(Index(data, key)) = "num" THEN Index(data, key)[2] ELSE 0

getPos(data) ==
    IF \E key \in {"line", "column", "byte"} : Kind(Index(data, key)) = "num"
    THEN <<"Pos", Float64Of(data, "line"), Float64Of(data, "column"), Float64Of(data, "byte")>>
    ELSE Nil

\* data["environment"].(string) has no comma-ok form: it panics on anything but a string
getRange(data) ==
    LET begin == getPos(getMapSafe(Index(data, "begin")))
        end == getPos(getMapSafe(Index(data, "end")))
    IN  IF Kind(Index(data, "environment")) # "str" THEN Panic
        ELSE IF begin # Nil /\ end # Nil
             THEN <<"Range", Index(data, "environment")[2], begin, end>>
             ELSE Nil

RECURSIVE mapValues(_), getValue(_), getTrace(_)

getTrace(data) ==
    LET def == getRange(getMapSafe(Index(data, "def")))
        base == getValue(getMapSafe(Index(data, "base")))
    IN  IF def # Nil \/ base # Nil THEN <<"Trace", def, base>> ELSE <<"Trace", Nil, Nil>>

\* data["trace"].(map[string]any) has no comma-ok form either
getValue(data) ==
    IF HasKey(data, "value") /\ HasKey(data, "trace")
    THEN IF Kind(data[2]["trace"]) # "obj" THEN Panic
         ELSE <<"Value", mapValues(data[2]["value"]), getBoolPtr(data, "secret"),
                getBoolPtr(data, "unknown"), getTrace(data[2]["trace"])>>
    ELSE Nil

mapValues(value) ==
    LET val == getValue(getMapSafe(value))
    IN  IF val # Nil
        THEN IF val = Panic THEN Panic
             ELSE <<"Value", mapValues(val[2]), val[3], val[4], val[5]>>
        ELSE IF Kind(value) = "obj"
        THEN <<"mapV",
               [key \in {k \in DOMAIN value[2] : mapValues(value[2][k]) # Nil} |->
                   LET v == mapValues(value[2][key])
                   IN  IF Kind(v) = "Value" THEN v
                       ELSE <<"Value", v, Nil, Nil, <<"Trace", Nil, Nil>> >>]>>
        ELSE IF Kind(value) = "arr"
        THEN JArr([i \in 1..Len(value[2]) |-> mapValues(value[2][i])])
        ELSE value

-----------------------------------------------------------------------------
(* Go: projection *)

RECURSIVE mapValuesPrimitive(_)

\* A projection that keeps the annotated children of a mapping as they are
mapValuesPrimitiveShallow(value) ==
    CASE Kind(value) = "Value" -> mapValuesPrimitive(value[2])
      [] Kind(value) = "mapV" -> JObj([k \in DOMAIN value[2] |-> value[2][k][2]])
      [] Kind(value) = "arr" ->
            JArr([i \in 1..Len(value[2]) |-> mapValuesPrimitive(value[2][i])])
      [] OTHER -> value

\* A projection that gives the elements of a sequence last to first
mapValuesPrimitiveReversed(value) ==
    CASE Kind(value) = "Value" -> mapValuesPrimitive(value[2])
      [] Kind(value) = "mapV" ->
            JObj([k \in DOMAIN value[2] |-> mapValuesPrimitive(value[2][k][2])])
      [] Kind(value) = "arr" ->
            JArr([i \in 1..Len(value[2]) |->
                    mapValuesPrimitive(value[2][Len(value[2]) + 1 - i])])
      [] OTHER -> value

mapValuesPrimitive(value) ==
    CASE Kind(value) = "Value" -> mapValuesPrimitive(value[2])
      [] Kind(value) = "mapV" ->
            JObj([k \in DOMAIN value[2] |-> mapValuesPrimitive(value[2][k][2])])
      [] Kind(value) = "arr" ->
            JArr([i \in 1..Len(value[2]) |-> mapValuesPrimitive(value[2][i])])
      [] OTHER -> value

\* What the argument of mapValuesPrimitive looks like once the call has returned:
\* the []any case assigns val[i], and a slice shares its elements with every copy
\* of the Value that holds it.
RECURSIVE mapValuesPrimitiveEffect(_)
mapValuesPrimitiveEffect(value) ==
    CASE Kind(value) = "Value" ->
            <<"Value", mapValuesPrimitiveEffect(value[2]), value[3], value[4], value[5]>>
      [] Kind(value) = "mapV" ->
            <<"mapV", [k \in DOMAIN value[2] |->
                <<"Value", mapValuesPrimitiveEffect(value[2][k][2]),
                  value[2][k][3], value[2][k][4], value[2][k][5]>>]>>
      [] Kind(value) = "arr" ->
            JArr([i \in 1..Len(value[2]) |-> mapValuesPrimitive(value[2][i])])
      [] OTHER -> value

-----------------------------------------------------------------------------
(* C#: ValueMapper *)

\* element.GetDouble()
GetDouble(element) ==
    CASE Kind(element) = "num" -> <<"double", element[2]>>
      [] Kind(element) = "big" -> <<"doubleBig", NearestDouble(element[2])>>
      [] Kind(element) = "frac" -> <<"doubleFrac", element[2]>>

\* element.TryGetInt64(out longVal): only an integer literal that fits in 64 bits
TryGetInt64(element) == Kind(element) = "num"

RECURSIVE UnwrapJsonElement(_)
UnwrapJsonElement(element) ==
    CASE Kind(element) = "null" -> Nil
      [] Kind(element) = "bool" -> element
      [] Kind(element) = "str" -> element
      [] Kind(element) \in {"num", "big", "frac"} ->
            IF TryGetInt64(element) THEN <<"long", element[2]>> ELSE GetDouble(element)
      [] Kind(element) = "arr" ->
            JArr([i \in 1..Len(element[2]) |-> UnwrapJsonElement(element[2][i])])
      [] Kind(element) = "obj" ->
            JObj([k \in DOMAIN element[2] |-> UnwrapJsonElement(element[2][k])])

RECURSIVE UnwrapPrimitive(_)
UnwrapPrimitive(obj) ==
    CASE Kind(obj) = "null" -> Nil
      [] Kind(obj) = "Value" -> UnwrapPrimitive(obj[2])
      [] Kind(obj) = "JsonElement" -> UnwrapJsonElement(obj[2])
      [] Kind(obj) = "obj" -> JObj([k \in DOMAIN obj[2] |-> UnwrapPrimitive(obj[2][k])])
      [] Kind(obj) = "mapV" -> JObj([k \in DOMAIN obj[2] |-> UnwrapPrimitive(obj[2][k][2])])
      [] Kind(obj) = "arr" -> JArr([i \in 1..Len(obj[2]) |-> UnwrapPrimitive(obj[2][i])])
      [] OTHER -> obj

MapValuePrimitive(value) == IF value = Nil THEN Nil ELSE UnwrapPrimitive(value[2])

\* MapValues(environment), given environment.Properties
MapValues(properties) ==
    IF properties = Nil THEN Nil
    ELSE JObj([k \in DOMAIN properties[2] |-> MapValuePrimitive(properties[2][k])])

-----------------------------------------------------------------------------
(* TypeScript: convertPropertyToValue *)

\* JavaScript's !x for the values of a parsed JSON document
Falsy(x) == x = Nil \/ x = JBool(FALSE) \/ x = JNum(0) \/ x = JStr("")

RECURSIVE convertPropertyToValue(_)
convertPropertyToValue(property) ==
    IF Falsy(property) THEN property
    ELSE LET value == IF HasKey(property, "value")
                      THEN convertPropertyToValue(property[2]["value"])
                      ELSE property
         IN  IF Falsy(value) THEN value
             ELSE IF Kind(value) = "arr"
             THEN JArr([i \in 1..Len(value[2]) |-> convertPropertyToValue(value[2][i])])
             ELSE IF Kind(value) = "obj"
             THEN JObj([k \in DOMAIN value[2] |-> convertPropertyToValue(value[2][k])])
             ELSE value

convertEnvPropertiesToValues(env) ==
    IF env = Nil THEN JObj(EmptyMap)
    ELSE JObj([k \in DOMAIN env[2] |-> convertPropertyToValue(env[2][k])])

-----------------------------------------------------------------------------
(* The responses of the service: environments of at most MaxNodes nodes *)

PropertyNames == <<"foo", "bar", "baz", "qux", "quux", "corge">>

PosJ(n) == JObj([line |-> JNum(n), column |-> JNum(n), byte |-> JNum(n)])

TraceJ == JObj([def |-> JObj([environment |-> JStr("env"), begin |-> PosJ(1), end |-> PosJ(2)])])

\* One node on the wire: {value, trace} and, for a secret, also {secret: true}
Node(value, secret) ==
    IF secret THEN JObj([value |-> value, secret |-> JBool(TRUE), trace |-> TraceJ])
    ELSE JObj([value |-> value, trace |-> TraceJ])

Leaves == {Node(JStr("bar"), FALSE), Node(JStr("shh"), TRUE), Node(JNum(1), FALSE)}

\* The children s of a mapping, under the first Len(s) property names
Keyed(s) == [k \in {PropertyNames[i] : i \in 1..Len(s)} |->
                s[CHOOSE i \in 1..Len(s) : PropertyNames[i] = k]]

\* NodesOfSize(n): the nodes with n nodes in all; Forests(n): the sequences of
\* nodes with n nodes in all
RECURSIVE NodesOfSize(_), Forests(_)
NodesOfSize(n) ==
    (IF n = 1 THEN Leaves ELSE {})
    \cup {Node(JArr(s), FALSE) : s \in Forests(n - 1)}
    \cup {Node(JObj(Keyed(s)), FALSE) : s \in Forests(n - 1)}

Forests(n) ==
    IF n = 0 THEN {<<>>}
    ELSE UNION {{<<t>> \o s : t \in NodesOfSize(j), s \in Forests(n - j)} : j \in 1..n}

Environments == UNION {{JObj(Keyed(s)) : s \in Forests(n)} : n \in 1..MaxNodes}

\* Any JSON document may arrive in the place of a node. The children below are a
\* null, a bare string, nodes holding a string, a null and numbers of each
\* notation, and nodes whose trace is a string, has no def, or has a def that
\* names no environment.
AnyChildren ==
    {Nil, JStr("raw"),
     Node(JStr("bar"), FALSE), Node(Nil, FALSE), Node(JNum(1), FALSE),
     Node(<<"big", 1>>, FALSE), Node(<<"frac", 15>>, FALSE),
     JObj([value |-> JStr("bar"), trace |-> JStr("here")]),
     JObj([value |-> JStr("bar"), trace |-> JObj(EmptyMap)]),
     JObj([value |-> JStr("bar"),
           trace |-> JObj([def |-> JObj([begin |-> PosJ(1), end |-> PosJ(2)])])])}

\* Mappings of a definition whose own keys are named value and trace
MappingsWithValueKey ==
    {JObj([value |-> Node(JStr("bar"), FALSE)]),
     JObj([value |-> Node(JStr("bar"), FALSE), foo |-> Node(JStr("baz"), FALSE)]),
     JObj([value |-> Node(JStr("bar"), FALSE), trace |-> Node(JStr("baz"), FALSE)])}

\* One property "foo" whose payload is a scalar, a mapping or a sequence of at
\* most MaxChildren such children, or a mapping with a key named value
AnyEnvironments ==
    {JObj([foo |-> Node(p, FALSE)]) :
        p \in {JStr("bar"), Nil, JNum(1), <<"big", 1>>, <<"frac", 15>>}
              \cup {JObj(Keyed(s)) : s \in SeqsUpTo(AnyChildren, MaxChildren)}
              \cup {JArr(s) : s \in SeqsUpTo(AnyChildren, MaxChildren)}
              \cup MappingsWithValueKey}

-----------------------------------------------------------------------------
(* The generated decoders of one property *)

DecodePos(j) == <<"Pos", Float64Of(j, "line"), Float64Of(j, "column"), Float64Of(j, "byte")>>

DecodeRange(j) ==
    IF Kind(j) # "obj" THEN Nil
    ELSE <<"Range", Index(j, "environment")[2], DecodePos(Index(j, "begin")),
           DecodePos(Index(j, "end"))>>

\* Go: Value.UnmarshalJSON leaves the payload as decoded JSON (interface{})
RECURSIVE DecodeProperty(_)
DecodeProperty(node) ==
    <<"Value", Index(node, "value"), getBoolPtr(node, "secret"), getBoolPtr(node, "unknown"),
      <<"Trace", DecodeRange(Index(Index(node, "trace"), "def")),
        IF HasKey(Index(node, "trace"), "base")
        THEN DecodeProperty(Index(Index(node, "trace"), "base")) ELSE Nil>> >>

\* C#: ValueJsonConverter leaves the payload as a JsonElement
CsDeserializeValue(node) ==
    LET v == DecodeProperty(node)
    IN  <<"Value", IF v[2] = Nil THEN Nil ELSE <<"JsonElement", v[2]>>, v[3], v[4], v[5]>>

\* C#: a Value tree built by hand from Dictionary<string, Value> and List<object?>
RECURSIVE MakeValue(_)
MakeValue(node) ==
    LET j == Index(node, "value")
        varValue ==
            CASE Kind(j) = "num" -> <<"double", j[2]>>
              [] Kind(j) = "arr" -> JArr([i \in 1..Len(j[2]) |-> MakeValue(j[2][i])])
              [] Kind(j) = "obj" -> <<"mapV", [k \in DOMAIN j[2] |-> MakeValue(j[2][k])]>>
              [] OTHER -> j
    IN  <<"Value", varValue, getBoolPtr(node, "secret"), getBoolPtr(node, "unknown"),
          <<"Trace", Nil, Nil>> >>

-----------------------------------------------------------------------------
(* Reading an environment *)

Failed == <<"err">>

\* Go: EscClient.ReadOpenEnvironment
GoReadOpenEnvironment ==
    /\ op = "idle"
    /\ op' = "GoReadOpenEnvironment"
    /\ \E answer \in {"ok", "err", "nil"} :
        IF answer = "err" THEN before' = Nil /\ held' = Nil /\ out' = Failed
        ELSE IF answer = "nil" THEN before' = Nil /\ held' = Nil /\ out' = Nil
        ELSE LET propertyMap ==
                    [k \in DOMAIN wire[2] |->
                        LET v == DecodeProperty(Unmarshal(wire[2][k]))
                        IN  <<"Value", mapValues(v[2]), v[3], v[4], v[5]>>]
             IN  IF HasPanic(<<"mapV", propertyMap>>)
                 THEN before' = Nil /\ held' = Nil /\ out' = Panic
                 ELSE /\ before' = <<"mapV", propertyMap>>
                      /\ out' = JObj([k \in DOMAIN propertyMap |->
                                        mapValuesPrimitive(propertyMap[k])])
                      /\ held' = <<"mapV", [k \in DOMAIN propertyMap |->
                                        mapValuesPrimitiveEffect(propertyMap[k])]>>
    /\ UNCHANGED <<given, returned, wire, propertyPath, found, rules, lastConfig, payload, response, result>>

\* Go: EscClient.ReadEnvironmentProperty, for the path of a top-level property
GoReadEnvironmentProperty ==
    /\ op = "idle"
    /\ op' = "GoReadEnvironmentProperty"
    /\ \/ before' = Nil /\ held' = Nil /\ out' = Failed
       \/ \E k \in DOMAIN wire[2] :
            LET prop == DecodeProperty(Unmarshal(wire[2][k]))
            IN  /\ before' = prop
                /\ out' = mapValuesPrimitive(prop[2])
                /\ held' = <<"Value", mapValuesPrimitiveEffect(prop[2]),
                             prop[3], prop[4], prop[5]>>
    /\ UNCHANGED <<given, returned, wire, propertyPath, found, rules, lastConfig, payload, response, result>>

\* C#: EscClient.ReadOpenEnvironmentAsync
CsReadOpenEnvironmentAsync ==
    /\ op = "idle"
    /\ op' = "CsReadOpenEnvironmentAsync"
    /\ \/ before' = Nil /\ held' = Nil /\ out' = Failed
       \/ LET properties == <<"mapV", [k \in DOMAIN wire[2] |->
                                        CsDeserializeValue(wire[2][k])]>>
          IN  before' = properties /\ held' = properties /\ out' = MapValues(properties)
    /\ UNCHANGED <<given, returned, wire, propertyPath, found, rules, lastConfig, payload, response, result>>

\* C#: ValueMapper.MapValuePrimitive on a Value tree built by the caller
CsMapValuePrimitive ==
    /\ op = "idle"
    /\ op' = "CsMapValuePrimitive"
    /\ \E value \in {MakeValue(wire[2][k]) : k \in DOMAIN wire[2]} \cup {Nil} :
            before' = value /\ held' = value /\ out' = MapValuePrimitive(value)
    /\ UNCHANGED <<given, returned, wire, propertyPath, found, rules, lastConfig, payload, response, result>>

\* TypeScript: EscApi.readOpenEnvironment
TsReadOpenEnvironment ==
    /\ op = "idle"
    /\ op' = "TsReadOpenEnvironment"
    /\ before' = Unmarshal(wire) /\ held' = Unmarshal(wire)
    /\ out' = convertEnvPropertiesToValues(Unmarshal(wire))
    /\ UNCHANGED <<given, returned, wire, propertyPath, found, rules, lastConfig, payload, response, result>>


-----------------------------------------------------------------------------
(* C#: reading one property by its path *)

\* A property path is a sequence of tokens, each a name or the separator "."
\* propertyPath.Split('.'): the names between the separators, "" where two
\* separators meet or the path begins or ends with one
RECURSIVE Split(_)
Split(path) ==
    IF \A i \in 1..Len(path) : path[i] # "."
    THEN <<IF path = <<>> THEN "" ELSE path[1]>>
    ELSE LET dot == CHOOSE i \in 1..Len(path) :
                        path[i] = "." /\ \A j \in 1..(i - 1) : path[j] # "."
         IN  <<IF dot = 1 THEN "" ELSE path[1]>> \o Split(SubSeq(path, dot + 1, Len(path)))

\* <<"EscApiException", message, number of segments in the path the message names>>
EscApiException(message, n) == <<"EscApiException", message, n>>
IsException(v) == Kind(v) = "EscApiException"

\* The navigation that keeps the node it stands on when it steps into a child
ResolveFromStay(current, segments, i) ==
    IF i > Len(segments) THEN current
    ELSE IF Kind(current[2]) = "JsonElement" /\ Kind(current[2][2]) = "obj"
    THEN IF ~HasKey(current[2][2], segments[i])
         THEN EscApiException("Property not found at path", i)
         ELSE current
    ELSE EscApiException("Cannot navigate into non-object value", i - 1)

\* The navigation that reports a scalar in the way as a property not found
ResolveFromNotFound(current, segments, i) ==
    EscApiException("Property not found at path", i)

\* The navigation that reports a missing property as a non-object value
ResolveFromNonObject(current, segments, i) ==
    EscApiException("Cannot navigate into non-object value", i - 1)

\* The loop of ResolvePropertyPath from segment i on, standing on current
RECURSIVE ResolveFrom(_, _, _)
ResolveFrom(current, segments, i) ==
    IF i > Len(segments) THEN current
    ELSE IF Kind(current[2]) = "JsonElement" /\ Kind(current[2][2]) = "obj"
    THEN IF ~HasKey(current[2][2], segments[i])
         THEN EscApiException("Property not found at path", i)
         ELSE IF current[2][2][2][segments[i]] = Nil
         THEN EscApiException("Failed to deserialize value at path", i)
         ELSE ResolveFrom(CsDeserializeValue(current[2][2][2][segments[i]]), segments, i + 1)
    ELSE EscApiException("Cannot navigate into non-object value", i - 1)

\* ResolvePropertyPath(env, propertyPath), given env.Properties
ResolvePropertyPath(properties, path) ==
    LET segments == Split(path)
    IN  IF properties = Nil THEN EscApiException("Environment has no properties", 0)
        ELSE IF segments[1] \notin DOMAIN properties[2]
        THEN EscApiException("Property not found in environment", 1)
        ELSE ResolveFrom(properties[2][segments[1]], segments, 2)

\* The names between the separators of a path
SegmentNames == {"foo", "bar"}

\* The path that Split takes apart into the segments s
RECURSIVE Join(_)
Join(s) == IF Len(s) <= 1 THEN s ELSE <<s[1], ".">> \o Join(Tail(s))

\* The paths a caller asks for: up to MaxSegments names, the empty path and a
\* path that ends with the separator
PropertyPaths ==
    {Join(s) : s \in SeqsUpTo(SegmentNames, MaxSegments) \ {<<>>}} \cup {<<>>, <<"foo", ".">>}

\* C#: EscClient.ReadOpenEnvironmentPropertyAsync
CsReadOpenEnvironmentPropertyAsync ==
    /\ op = "idle"
    /\ op' = "CsReadOpenEnvironmentPropertyAsync"
    /\ \E path \in PropertyPaths :
        /\ propertyPath' = path
        /\ \/ before' = Nil /\ held' = Nil /\ found' = Failed /\ out' = Nil
           \/ LET properties == <<"mapV", [k \in DOMAIN wire[2] |->
                                            CsDeserializeValue(wire[2][k])]>>
                  value == ResolvePropertyPath(properties, path)
              IN  /\ before' = properties /\ held' = properties
                  /\ found' = value
                  /\ out' = IF IsException(value) THEN Nil ELSE MapValuePrimitive(value)
    /\ UNCHANGED <<given, returned, wire, rules, lastConfig, payload, response, result>>

-----------------------------------------------------------------------------
(* Go: the eligibility rules of a change gate, built and encoded *)

ApprovalRuleEligibilityTypeHasPermissionOnTarget == "has_permission_on_target"
ApprovalRuleEligibilityTypeHasUserLogin == "has_user_login"
ApprovalRuleEligibilityTypeHasTeamMembership == "has_team_membership"

KnownEligibilityTypes ==
    {ApprovalRuleEligibilityTypeHasPermissionOnTarget,
     ApprovalRuleEligibilityTypeHasUserLogin,
     ApprovalRuleEligibilityTypeHasTeamMembership}

\* The generated constructors: the concrete input types, with their own field set
\* and no discriminator yet.  <<type, EligibilityType, field>>
NewApprovalRuleEligibilityInputPermission(permission) ==
    <<"ApprovalRuleEligibilityInputPermission", Nil, permission>>
NewApprovalRuleEligibilityInputUser(userLogin) ==
    <<"ApprovalRuleEligibilityInputUser", Nil, userLogin>>
NewApprovalRuleEligibilityInputTeam(teamName) ==
    <<"ApprovalRuleEligibilityInputTeam", Nil, teamName>>

\* rule.EligibilityType = &eligibilityType
WithEligibilityType(rule, eligibilityType) == <<rule[1], JStr(eligibilityType), rule[3]>>

\* A builder that tags a permission rule as a user rule
addPermissionAsUser(b, permission) ==
    Append(b, WithEligibilityType(NewApprovalRuleEligibilityInputPermission(permission),
                                  ApprovalRuleEligibilityTypeHasUserLogin))

addPermission(b, permission) ==
    Append(b, WithEligibilityType(NewApprovalRuleEligibilityInputPermission(permission),
                                  ApprovalRuleEligibilityTypeHasPermissionOnTarget))

AddUser(b, userLogin) ==
    Append(b, WithEligibilityType(NewApprovalRuleEligibilityInputUser(userLogin),
                                  ApprovalRuleEligibilityTypeHasUserLogin))

AddTeam(b, teamName) ==
    Append(b, WithEligibilityType(NewApprovalRuleEligibilityInputTeam(teamName),
                                  ApprovalRuleEligibilityTypeHasTeamMembership))

AddEnvironmentAdmins(b) == addPermission(b, "environment:admin")
AddEnvironmentWriters(b) == addPermission(b, "environment:write")
AddCustomPermission(b, permission) == addPermission(b, permission)

BuildWrappers(b) == b

\* The name, in JSON, of the field a concrete input type carries
OwnField(type) ==
    CASE type = "ApprovalRuleEligibilityInputPermission" -> "permission"
      [] type = "ApprovalRuleEligibilityInputUser" -> "userLogin"
      [] type = "ApprovalRuleEligibilityInputTeam" -> "teamName"

\* json.Marshal(wrapper.Concrete): the generated MarshalJSON of the concrete type
MarshalEligibilityInput(concrete) ==
    JObj([k \in {OwnField(concrete[1])}
                \cup (IF concrete[2] = Nil THEN {} ELSE {"eligibilityType"}) |->
            IF k = "eligibilityType" THEN concrete[2] ELSE JStr(concrete[3])])

\* ChangeGateConfig and ChangeGateUpdateConfig:
\* <<"config", Name, Enabled, NumApprovalsRequired, EligibleApprovers,
\*   AllowSelfApproval, RequireReapprovalOnChange>>
NewChangeGateConfig(name, enabled, numApprovals, eligibleApprovers) ==
    <<"config", name, enabled, numApprovals, eligibleApprovers, JBool(FALSE), JBool(TRUE)>>

NewChangeGateUpdateFromGate(gate) ==
    <<"config", gate[2][3], gate[2][4], gate[3], <<>>, gate[4], gate[5]>>

WithApprovalRule(c, numApprovals, eligibleApprovers) ==
    <<"config", c[2], c[3], numApprovals, eligibleApprovers, c[6], c[7]>>
WithSelfApproval(c, allow) == <<"config", c[2], c[3], c[4], c[5], JBool(allow), c[7]>>
WithReapprovalOnChange(c, require) ==
    <<"config", c[2], c[3], c[4], c[5], c[6], JBool(require)>>

\* The qualified name with the two names the other way round
getQualifiedEnvNameSwapped(projectName, envName) == <<envName, "/", projectName>>

getQualifiedEnvName(projectName, envName) == <<projectName, "/", envName>>

\* The loop that marshals the approvers, but from the last wrapper to the first
EligibleApproversReversed(config) ==
    JArr([i \in 1..Len(config[5]) |->
            MarshalEligibilityInput(config[5][Len(config[5]) + 1 - i])])

\* eligibleApprovers[i] = json.RawMessage(json.Marshal(wrapper.Concrete))
EligibleApproversJSON(config) ==
    JArr([i \in 1..Len(config[5]) |-> MarshalEligibilityInput(config[5][i])])

RuleJSON(config) ==
    JObj([ruleType |-> JStr("approval_required"),
          numApprovalsRequired |-> JNum(config[4]),
          allowSelfApproval |-> config[6],
          requireReapprovalOnChange |-> config[7],
          eligibleApprovers |-> EligibleApproversJSON(config)])

\* The request body of CreateEnvironmentChangeGate; a panic when it dereferences nil
CreateRequestJSON(projectName, envName, config) ==
    IF config[6] = Nil \/ config[7] = Nil THEN Panic
    ELSE JObj([name |-> JStr(config[2]),
               enabled |-> JBool(config[3]),
               rule |-> RuleJSON(config),
               target |-> JObj([entityType |-> JStr("environment"),
                                qualifiedName |-> <<"str", getQualifiedEnvName(projectName, envName)>>,
                                actionTypes |-> JArr(<<JStr("update")>>)])])

\* The request body of an update that also describes the target entity
UpdateRequestJSONWithEntity(config) ==
    IF config[6] = Nil \/ config[7] = Nil THEN Panic
    ELSE JObj([name |-> JStr(config[2]),
               enabled |-> JBool(config[3]),
               rule |-> RuleJSON(config),
               target |-> JObj([entityType |-> JStr("environment"),
                                actionTypes |-> JArr(<<JStr("update")>>)])])

\* The request body of UpdateEnvironmentChangeGate
UpdateRequestJSON(config) ==
    IF config[6] = Nil \/ config[7] = Nil THEN Panic
    ELSE JObj([name |-> JStr(config[2]),
               enabled |-> JBool(config[3]),
               rule |-> RuleJSON(config),
               target |-> JObj([actionTypes |-> JArr(<<JStr("update")>>)])])

-----------------------------------------------------------------------------
(* Go: decoding a gate *)

\* <<"err", message, index of the approver or -1, eligibilityType seen or nil>>
Err(message, index, tag) == <<"err", message, index, tag>>
IsErr(r) == Kind(r) = "err"

\* json.Unmarshal of one field of type string: "" when absent or null
StringField(data, key) ==
    IF Kind(Index(data, key)) = "null" THEN ""
    ELSE IF Kind(Index(data, key)) = "str" THEN Index(data, key)[2]
    ELSE "?"

\* json.Unmarshal into a struct of string fields fails on anything but an
\* object (or null) whose fields named in keys are strings, null or absent
UnmarshalFails(data, keys) ==
    \/ Kind(data) \notin {"obj", "null"}
    \/ \E key \in keys : Kind(Index(data, key)) \notin {"str", "null"}

\* The body of the loop of parseEnhancedGateFromJSON, with every known tag
\* decoded as a permission approver
parseApproverAsPermission(approverData, i) ==
    IF UnmarshalFails(approverData, {"eligibilityType"})
    THEN Err("failed to parse approver eligibilityType", i, Nil)
    ELSE IF StringField(approverData, "eligibilityType") \in KnownEligibilityTypes
    THEN <<"EnvironmentChangeGatePermissionApprover",
           StringField(approverData, "eligibilityType"),
           StringField(approverData, "permission")>>
    ELSE Err("unknown eligibilityType", i, JStr(StringField(approverData, "eligibilityType")))

\* The body of the loop, with an unknown tag decoded as an empty permission approver
parseApproverLenient(approverData, i) ==
    IF UnmarshalFails(approverData, {"eligibilityType"})
    THEN Err("failed to parse approver eligibilityType", i, Nil)
    ELSE <<"EnvironmentChangeGatePermissionApprover",
           StringField(approverData, "eligibilityType"),
           StringField(approverData, "permission")>>

\* The body of the loop, with the variant taken from the fields when the tag is absent
parseApproverInferring(approverData, i) ==
    IF UnmarshalFails(approverData, {"eligibilityType"})
    THEN Err("failed to parse approver eligibilityType", i, Nil)
    ELSE IF HasKey(approverData, "permission") /\ ~UnmarshalFails(approverData, {"permission"})
    THEN <<"EnvironmentChangeGatePermissionApprover",
           ApprovalRuleEligibilityTypeHasPermissionOnTarget,
           StringField(approverData, "permission")>>
    ELSE Err("unknown eligibilityType", i, JStr(StringField(approverData, "eligibilityType")))

\* The body of the loop, which reports every failure as that of approver 0
parseApproverNoIndex(approverData, i) ==
    IF UnmarshalFails(approverData, {"eligibilityType"})
    THEN Err("failed to parse approver eligibilityType", 0, Nil)
    ELSE Err("unknown eligibilityType", 0, JStr(StringField(approverData, "eligibilityType")))

\* The body of the loop of parseEnhancedGateFromJSON for approver i
parseApprover(approverData, i) ==
    IF UnmarshalFails(approverData, {"eligibilityType"})
    THEN Err("failed to parse approver eligibilityType", i, Nil)
    ELSE LET eligibilityType == StringField(approverData, "eligibilityType")
         IN  CASE eligibilityType = ApprovalRuleEligibilityTypeHasPermissionOnTarget ->
                    IF UnmarshalFails(approverData, {"eligibilityType", "permission"})
                    THEN Err("failed to parse permission approver", i, Nil)
                    ELSE <<"EnvironmentChangeGatePermissionApprover", eligibilityType,
                           StringField(approverData, "permission")>>
               [] eligibilityType = ApprovalRuleEligibilityTypeHasUserLogin ->
                    IF UnmarshalFails(approverData, {"eligibilityType", "userLogin"})
                    THEN Err("failed to parse user approver", i, Nil)
                    ELSE <<"EnvironmentChangeGateUserApprover", eligibilityType,
                           StringField(approverData, "userLogin")>>
               [] eligibilityType = ApprovalRuleEligibilityTypeHasTeamMembership ->
                    IF UnmarshalFails(approverData, {"eligibilityType", "teamName"})
                    THEN Err("failed to parse team approver", i, Nil)
                    ELSE <<"EnvironmentChangeGateTeamApprover", eligibilityType,
                           StringField(approverData, "teamName")>>
               [] OTHER -> Err("unknown eligibilityType", i, JStr(eligibilityType))

\* json.Unmarshal(jsonData, &responseData) fails when a field has the wrong type
ResponseDataFails(jsonData) ==
    LET rule == Index(jsonData, "rule")
    IN  \/ Kind(jsonData) \notin {"obj", "null"}
        \/ Kind(rule) \notin {"obj", "null"}
        \/ Kind(Index(rule, "numApprovalsRequired")) \notin {"num", "null"}
        \/ Kind(Index(rule, "allowSelfApproval")) \notin {"bool", "null"}
        \/ Kind(Index(rule, "requireReapprovalOnChange")) \notin {"bool", "null"}
        \/ Kind(Index(rule, "eligibleApprovers")) \notin {"arr", "null"}

\* The decoder, filling the approvers from the last element to the first
parseEnhancedGateFromJSONReversed(jsonData, gate) ==
    IF ResponseDataFails(jsonData) THEN Err("failed to parse response data", -1, Nil)
    ELSE LET rule == Index(jsonData, "rule")
             raw == IF Kind(Index(rule, "eligibleApprovers")) = "arr"
                    THEN Index(rule, "eligibleApprovers")[2] ELSE <<>>
             eligibleApprovers ==
                [i \in 1..Len(raw) |-> parseApprover(raw[Len(raw) + 1 - i], Len(raw) - i)]
             failing == {i \in 1..Len(raw) : IsErr(eligibleApprovers[i])}
         IN  IF failing # {}
             THEN eligibleApprovers[CHOOSE i \in failing : \A j \in failing : i <= j]
             ELSE <<"gate", gate,
                    IF Kind(Index(rule, "numApprovalsRequired")) = "num"
                    THEN Index(rule, "numApprovalsRequired")[2] ELSE 0,
                    Index(rule, "allowSelfApproval"),
                    Index(rule, "requireReapprovalOnChange"),
                    eligibleApprovers>>

\* <<"gate", ChangeGate, NumApprovalsRequired, AllowSelfApproval,
\*   RequireReapprovalOnChange, EligibleApprovers>>
parseEnhancedGateFromJSON(jsonData, gate) ==
    IF ResponseDataFails(jsonData) THEN Err("failed to parse response data", -1, Nil)
    ELSE LET rule == Index(jsonData, "rule")
             raw == IF Kind(Index(rule, "eligibleApprovers")) = "arr"
                    THEN Index(rule, "eligibleApprovers")[2] ELSE <<>>
             eligibleApprovers == [i \in 1..Len(raw) |-> parseApprover(raw[i], i - 1)]
             failing == {i \in 1..Len(raw) : IsErr(eligibleApprovers[i])}
         IN  IF failing # {}
             THEN eligibleApprovers[CHOOSE i \in failing : \A j \in failing : i <= j]
             ELSE <<"gate", gate,
                    IF Kind(Index(rule, "numApprovalsRequired")) = "num"
                    THEN Index(rule, "numApprovalsRequired")[2] ELSE 0,
                    Index(rule, "allowSelfApproval"),
                    Index(rule, "requireReapprovalOnChange"),
                    eligibleApprovers>>

\* The generated ChangeGate: <<"ChangeGate", Id, Name, Enabled>>
UnmarshalChangeGate(respBody) ==
    <<"ChangeGate", StringField(respBody, "id"), StringField(respBody, "name"),
      Index(respBody, "enabled") = JBool(TRUE)>>

\* What createChangeGateWithRawJSON, updateChangeGateWithRawJSON and
\* getChangeGateWithRawJSON make of the answer <<status, body>>
GateFromAnswer(answer) ==
    IF answer[1] < 200 \/ answer[1] >= 300 THEN Err("HTTP request failed", -1, Nil)
    ELSE parseEnhancedGateFromJSON(answer[2], UnmarshalChangeGate(answer[2]))

-----------------------------------------------------------------------------

Init ==
    /\ wire \in Environments
    /\ given = Nil /\ returned = Nil
    /\ op = "idle"
    /\ before = Nil /\ held = Nil /\ out = Nil
    /\ propertyPath = <<>> /\ found = Nil
    /\ rules = <<>> /\ lastConfig = Nil /\ payload = Nil /\ response = Nil /\ result = Nil

Next ==
    \/ GoReadOpenEnvironment
    \/ GoReadEnvironmentProperty
    \/ CsReadOpenEnvironmentAsync
    \/ CsMapValuePrimitive
    \/ TsReadOpenEnvironment
    \/ CsReadOpenEnvironmentPropertyAsync

Spec == Init /\ [][Next]_vars

\* The same reads of a whole environment or of one top-level property, of any
\* document the service may answer with
InitAnyTree ==
    /\ wire \in AnyEnvironments
    /\ given = Nil /\ returned = Nil
    /\ op = "idle"
    /\ before = Nil /\ held = Nil /\ out = Nil
    /\ propertyPath = <<>> /\ found = Nil
    /\ rules = <<>>
    /\ lastConfig = Nil /\ payload = Nil /\ response = Nil /\ result = Nil

NextAnyTree ==
    \/ GoReadOpenEnvironment
    \/ GoReadEnvironmentProperty
    \/ CsReadOpenEnvironmentAsync
    \/ TsReadOpenEnvironment

SpecAnyTree == InitAnyTree /\ [][NextAnyTree]_vars

-----------------------------------------------------------------------------
(* Change gates: the calls *)

\* The project and the environment the gate is created for
ProjectName == "proj"
EnvName == "env"

CustomPermissions == {""}
UserLogins == {"alice"}
TeamNames == {"devs"}
NumApprovals == {1, 2}
OptionalBool == {Nil, JBool(TRUE), JBool(FALSE)}

DoAddEnvironmentAdmins ==
    /\ op = "idle" /\ Len(rules) < MaxRules
    /\ rules' = AddEnvironmentAdmins(rules)
    /\ UNCHANGED <<given, returned, wire, op, before, held, out, propertyPath, found, lastConfig, payload, response, result>>

DoAddEnvironmentWriters ==
    /\ op = "idle" /\ Len(rules) < MaxRules
    /\ rules' = AddEnvironmentWriters(rules)
    /\ UNCHANGED <<given, returned, wire, op, before, held, out, propertyPath, found, lastConfig, payload, response, result>>

DoAddCustomPermission ==
    /\ op = "idle" /\ Len(rules) < MaxRules
    /\ \E permission \in CustomPermissions : rules' = AddCustomPermission(rules, permission)
    /\ UNCHANGED <<given, returned, wire, op, before, held, out, propertyPath, found, lastConfig, payload, response, result>>

DoAddUser ==
    /\ op = "idle" /\ Len(rules) < MaxRules
    /\ \E userLogin \in UserLogins : rules' = AddUser(rules, userLogin)
    /\ UNCHANGED <<given, returned, wire, op, before, held, out, propertyPath, found, lastConfig, payload, response, result>>

DoAddTeam ==
    /\ op = "idle" /\ Len(rules) < MaxRules
    /\ \E teamName \in TeamNames : rules' = AddTeam(rules, teamName)
    /\ UNCHANGED <<given, returned, wire, op, before, held, out, propertyPath, found, lastConfig, payload, response, result>>

\* The service stores the gate it is sent and answers with it
StoredGate(requestJSON) ==
    JObj([k \in DOMAIN requestJSON[2] \cup {"id"} |->
            IF k = "id" THEN JStr("gate-1") ELSE requestJSON[2][k]])

Answers(requestJSON) ==
    {<<200, StoredGate(requestJSON)>>, <<500, JObj([message |-> JStr("internal error")])>>}

\* Sending a request body and reading the answer; a panic before any request
\* when building the body panicked
Send(requestJSON) ==
    IF requestJSON = Panic
    THEN payload' = Nil /\ response' = Nil /\ result' = Panic
    ELSE /\ payload' = requestJSON
         /\ \E answer \in Answers(requestJSON) :
                response' = answer /\ result' = GateFromAnswer(answer)

\* The configurations a caller can hand to CreateEnvironmentChangeGate
CreateConfigs ==
    {<<"config", "Test Security Gate", TRUE, n, BuildWrappers(rules), allow, require>> :
        n \in NumApprovals, allow \in OptionalBool, require \in OptionalBool}

DoCreateEnvironmentChangeGate ==
    /\ op = "idle"
    /\ op' = "CreateEnvironmentChangeGate"
    /\ \E c \in CreateConfigs : lastConfig' = c /\ Send(CreateRequestJSON(ProjectName, EnvName, c))
    /\ UNCHANGED <<given, returned, wire, before, held, out, propertyPath, found, rules>>

\* The configurations a caller derives from the gate it holds
UpdateConfigs ==
    LET base == NewChangeGateUpdateFromGate(result)
        ruled == {base} \cup {WithApprovalRule(base, 2, BuildWrappers(rules))}
        allowed == ruled \cup {WithSelfApproval(c, TRUE) : c \in ruled}
    IN  allowed \cup {WithReapprovalOnChange(c, FALSE) : c \in allowed}

DoUpdateEnvironmentChangeGate ==
    /\ op \in {"CreateEnvironmentChangeGate", "GetChangeGate"}
    /\ Kind(result) = "gate"
    /\ op' = "UpdateEnvironmentChangeGate"
    /\ \E c \in UpdateConfigs : lastConfig' = c /\ Send(UpdateRequestJSON(c))
    /\ UNCHANGED <<given, returned, wire, before, held, out, propertyPath, found, rules>>

\* The elements a response can carry in eligibleApprovers
ApproverDocs ==
    {JObj([eligibilityType |-> JStr("has_permission_on_target"),
           permission |-> JStr("environment:write")]),
     JObj([eligibilityType |-> JStr("has_user_login"), userLogin |-> JStr("alice")]),
     JObj([eligibilityType |-> JStr("has_team_membership"), teamName |-> JStr("devs")]),
     JObj([eligibilityType |-> JStr("has_user_login"), permission |-> JStr("environment:write")]),
     JObj([eligibilityType |-> JStr("has_group_membership"), groupName |-> JStr("ops")]),
     JObj([eligibilityType |-> JStr("Has_User_Login"), userLogin |-> JStr("alice")]),
     JObj([permission |-> JStr("environment:write")]),
     JObj([userLogin |-> JStr("alice"), teamName |-> JStr("devs")]),
     JObj([eligibilityType |-> JNum(5), userLogin |-> JStr("alice")]),
     JObj([eligibilityType |-> JStr("has_team_membership"), teamName |-> JNum(7)]),
     JStr("alice"),
     Nil}

\* The gates a response can carry
GateDocs ==
    {JObj([id |-> JStr("gate-1"), name |-> JStr("Test Security Gate"), enabled |-> JBool(TRUE),
           rule |-> rule,
           target |-> JObj([actionTypes |-> JArr(<<JStr("update")>>)])]) :
        rule \in {JObj([ruleType |-> JStr("approval_required"),
                        numApprovalsRequired |-> JNum(1),
                        allowSelfApproval |-> JBool(TRUE),
                        requireReapprovalOnChange |-> JBool(FALSE),
                        eligibleApprovers |-> JArr(a)]) : a \in SeqsUpTo(ApproverDocs, MaxApprovers)}
             \cup {JObj([ruleType |-> JStr("approval_required"),
                        numApprovalsRequired |-> JNum(1),
                        eligibleApprovers |-> JArr(a)]) : a \in SeqsUpTo(ApproverDocs, 1)}
             \cup {JObj([ruleType |-> JStr("approval_required"),
                        numApprovalsRequired |-> JNum(1),
                        eligibleApprovers |-> JStr("everyone")])}}

DoGetChangeGate ==
    /\ op = "idle" /\ rules = <<>>
    /\ op' = "GetChangeGate"
    /\ lastConfig' = Nil /\ payload' = Nil
    /\ \E answer \in {<<200, doc>> : doc \in GateDocs} \cup {<<404, JObj([message |-> JStr("not found")])>>} :
            response' = answer /\ result' = GateFromAnswer(answer)
    /\ UNCHANGED <<given, returned, wire, before, held, out, propertyPath, found, rules>>

InitGates ==
    /\ wire = Nil
    /\ given = Nil /\ returned = Nil
    /\ op = "idle"
    /\ before = Nil /\ held = Nil /\ out = Nil
    /\ propertyPath = <<>> /\ found = Nil
    /\ rules = <<>> /\ lastConfig = Nil /\ payload = Nil /\ response = Nil /\ result = Nil

NextGates ==
    \/ DoAddEnvironmentAdmins
    \/ DoAddEnvironmentWriters
    \/ DoAddCustomPermission
    \/ DoAddUser
    \/ DoAddTeam
    \/ DoCreateEnvironmentChangeGate
    \/ DoUpdateEnvironmentChangeGate
    \/ DoGetChangeGate

SpecGates == InitGates /\ [][NextGates]_vars

-----------------------------------------------------------------------------
(* Projection: claims *)

\* The payload of an annotated node is a mapping, a sequence or a scalar
IsMapping(node) == Kind(node[2]) = "mapV"
IsSequence(node) == Kind(node[2]) = "arr"

\* plain has the shape of the annotated node at every depth, and the scalars of
\* plain are the payloads of the leaves of node
RECURSIVE SameShape(_, _)
SameShape(node, plain) ==
    IF IsMapping(node)
    THEN /\ Kind(plain) = "obj"
         /\ DOMAIN plain[2] = DOMAIN node[2][2]
         /\ \A k \in DOMAIN node[2][2] : SameShape(node[2][2][k], plain[2][k])
    ELSE IF IsSequence(node)
    THEN /\ Kind(plain) = "arr"
         /\ Len(plain[2]) = Len(node[2][2])
         /\ \A i \in 1..Len(node[2][2]) : SameShape(node[2][2][i], plain[2][i])
    ELSE plain = node[2]

RECURSIVE HasAnnotation(_)
HasAnnotation(plain) ==
    CASE Kind(plain) \in {"Value", "mapV", "JsonElement"} -> TRUE
      [] Kind(plain) = "obj" ->
            \/ DOMAIN plain[2] \cap {"secret", "unknown", "trace"} # {}
            \/ \E k \in DOMAIN plain[2] : HasAnnotation(plain[2][k])
      [] Kind(plain) = "arr" -> \E i \in 1..Len(plain[2]) : HasAnnotation(plain[2][i])
      [] OTHER -> FALSE

\* C2: the output of a projection holds no secret, unknown or trace field and no
\* annotation wrapper at any depth.
C2_NoAnnotationInOutput ==
    (op # "idle" /\ before # Nil) => ~HasAnnotation(out)

\* C3: projecting has no side effect: the annotated tree the caller holds after
\* the call is the tree as it was before the call, every element of every
\* sequence included.
C3_TreeUnchanged ==
    op # "idle" => held = before


-----------------------------------------------------------------------------
(* The eligibility rules of a change gate *)

\* The approver type and the tag that stand for a concrete input type
ApproverOf(type) ==
    CASE type = "ApprovalRuleEligibilityInputPermission" -> "EnvironmentChangeGatePermissionApprover"
      [] type = "ApprovalRuleEligibilityInputUser" -> "EnvironmentChangeGateUserApprover"
      [] type = "ApprovalRuleEligibilityInputTeam" -> "EnvironmentChangeGateTeamApprover"

TagOf(type) ==
    CASE type = "ApprovalRuleEligibilityInputPermission" -> "has_permission_on_target"
      [] type = "ApprovalRuleEligibilityInputUser" -> "has_user_login"
      [] type = "ApprovalRuleEligibilityInputTeam" -> "has_team_membership"

\* The approver type and the field a tag names
ApproverOfTag(tag) ==
    CASE tag = "has_permission_on_target" -> "EnvironmentChangeGatePermissionApprover"
      [] tag = "has_user_login" -> "EnvironmentChangeGateUserApprover"
      [] tag = "has_team_membership" -> "EnvironmentChangeGateTeamApprover"

FieldOfTag(tag) ==
    CASE tag = "has_permission_on_target" -> "permission"
      [] tag = "has_user_login" -> "userLogin"
      [] tag = "has_team_membership" -> "teamName"

InputTypes ==
    {"ApprovalRuleEligibilityInputPermission", "ApprovalRuleEligibilityInputUser",
     "ApprovalRuleEligibilityInputTeam"}

\* The decoded approver is the rule that was built: same variant, same field value
SameRule(input, approver) ==
    /\ approver[1] = ApproverOf(input[1])
    /\ approver[2] = TagOf(input[1])
    /\ approver[3] = input[3]

\* The service answered the last call with a gate
Answered(call) == op = call /\ response # Nil /\ response[1] = 200

\* The eligibleApprovers array of a gate document
ApproversOf(doc) == Index(Index(doc, "rule"), "eligibleApprovers")

\* All three variants occur among the built rules
AllVariantsBuilt == \A type \in InputTypes : \E i \in 1..Len(rules) : rules[i][1] = type

\* C4: a gate created from built rules and read back from what the service
\* stored decodes to the rules that were built: decode(encode(r)) is the same
\* variant with the same field value, for each of the three variants.
C4_RoundTrip ==
    Answered("CreateEnvironmentChangeGate") =>
        /\ Kind(result) = "gate"
        /\ Len(result[6]) = Len(rules)
        /\ \A i \in 1..Len(rules) : SameRule(rules[i], result[6][i])

C4_Witness ==
    /\ Answered("CreateEnvironmentChangeGate")
    /\ AllVariantsBuilt
    /\ Kind(result) = "gate"
    /\ \E i \in 1..Len(rules) : rules[i][3] = ""

\* The element is an object whose eligibilityType is a string outside the known tags
UnknownTag(e) ==
    /\ Kind(Index(e, "eligibilityType")) = "str"
    /\ Index(e, "eligibilityType")[2] \notin KnownEligibilityTypes

\* C5: a gate with an approver whose eligibilityType is a string other than the
\* three known tags does not decode: the call returns an error, never a gate,
\* and when that approver is the one reported the error is the unknown
\* eligibilityType error carrying the tag.
C5_UnknownTagFails ==
    (Answered("GetChangeGate") /\ Kind(ApproversOf(response[2])) = "arr") =>
        \A i \in 1..Len(ApproversOf(response[2])[2]) :
            LET e == ApproversOf(response[2])[2][i]
            IN  UnknownTag(e) =>
                    /\ IsErr(result)
                    /\ parseApprover(e, i - 1) =
                            Err("unknown eligibilityType", i - 1, Index(e, "eligibilityType"))
                    /\ result[3] = i - 1 => result = parseApprover(e, i - 1)

C5_Witness ==
    /\ Answered("GetChangeGate")
    /\ Kind(ApproversOf(response[2])) = "arr"
    /\ Len(ApproversOf(response[2])[2]) = 2
    /\ UnknownTag(ApproversOf(response[2])[2][2])
    /\ result = Err("unknown eligibilityType", 1, JStr("has_group_membership"))

\* The element is an object without an eligibilityType
NoTag(e) == Kind(e) = "obj" /\ ~HasKey(e, "eligibilityType")

\* C6: a gate with an approver that has no eligibilityType does not decode,
\* whatever other fields the approver carries: the call returns an error and
\* the approver itself decodes to an error, not to a variant.
C6_AbsentTagFails ==
    (Answered("GetChangeGate") /\ Kind(ApproversOf(response[2])) = "arr") =>
        \A i \in 1..Len(ApproversOf(response[2])[2]) :
            LET e == ApproversOf(response[2])[2][i]
            IN  NoTag(e) =>
                    /\ IsErr(result)
                    /\ IsErr(parseApprover(e, i - 1))
                    /\ result[3] = i - 1 => result[2] = "unknown eligibilityType"

C6_Witness ==
    /\ Answered("GetChangeGate")
    /\ Kind(ApproversOf(response[2])) = "arr"
    /\ Len(ApproversOf(response[2])[2]) = 3
    /\ NoTag(ApproversOf(response[2])[2][3])
    /\ HasKey(ApproversOf(response[2])[2][3], "permission")
    /\ IsErr(result) /\ result[3] = 2

\* The element decodes: an object with a known tag whose own field is a string or absent
Decodable(e) ==
    /\ Kind(e) = "obj"
    /\ Kind(Index(e, "eligibilityType")) = "str"
    /\ Index(e, "eligibilityType")[2] \in KnownEligibilityTypes
    /\ Kind(Index(e, FieldOfTag(Index(e, "eligibilityType")[2]))) \in {"str", "null"}

\* The first element of the array that does not decode (0 when all do)
FirstBad(raw) ==
    IF \A i \in 1..Len(raw) : Decodable(raw[i]) THEN 0
    ELSE CHOOSE i \in 1..Len(raw) :
            ~Decodable(raw[i]) /\ \A j \in 1..(i - 1) : Decodable(raw[j])

\* The error tells the tag: it carries the tag's value, or names the variant of a known tag
TellsTag(error, tag) ==
    \/ error[4] = tag
    \/ /\ Kind(tag) = "str" /\ tag[2] \in KnownEligibilityTypes
       /\ error[2] = CASE tag[2] = "has_permission_on_target" -> "failed to parse permission approver"
                       [] tag[2] = "has_user_login" -> "failed to parse user approver"
                       [] tag[2] = "has_team_membership" -> "failed to parse team approver"

\* C7 as stated: whenever an element of eligibleApprovers fails to decode, the
\* error identifies the index of that element and the tag value the element
\* carried, and no element before it is reported.
C7_ErrorTellsIndexAndTag ==
    (Answered("GetChangeGate") /\ Kind(ApproversOf(response[2])) = "arr") =>
        LET raw == ApproversOf(response[2])[2]
        IN  FirstBad(raw) # 0 =>
                /\ IsErr(result)
                /\ result[3] = FirstBad(raw) - 1
                /\ HasKey(raw[FirstBad(raw)], "eligibilityType") =>
                        TellsTag(result, Index(raw[FirstBad(raw)], "eligibilityType"))

\* C7: whenever an element of eligibleApprovers fails to decode, the error
\* identifies the index of the first such element, so no element before it is
\* reported; the error tells the tag when the element carries a string as its
\* tag, and reports the empty tag when the element carries none.
C7_ErrorTellsIndex ==
    (Answered("GetChangeGate") /\ Kind(ApproversOf(response[2])) = "arr") =>
        LET raw == ApproversOf(response[2])[2]
            tag == Index(raw[FirstBad(raw)], "eligibilityType")
        IN  FirstBad(raw) # 0 =>
                /\ IsErr(result)
                /\ result[3] = FirstBad(raw) - 1
                /\ Kind(tag) = "str" => TellsTag(result, tag)
                /\ Kind(tag) = "null" /\ Kind(raw[FirstBad(raw)]) \in {"obj", "null"} =>
                        result[4] = JStr("")

C7_Witness ==
    /\ Answered("GetChangeGate")
    /\ Kind(ApproversOf(response[2])) = "arr"
    /\ Len(ApproversOf(response[2])[2]) = 3
    /\ FirstBad(ApproversOf(response[2])[2]) = 3
    /\ NoTag(ApproversOf(response[2])[2][3])
    /\ result = Err("unknown eligibilityType", 2, JStr(""))

\* C8: a gate whose eligibleApprovers has n elements that decode yields exactly
\* n approvers, the i-th of the variant its own eligibilityType names and with
\* that element's field value, in the order of the array.
C8_DecodesInOrder ==
    (Answered("GetChangeGate") /\ Kind(ApproversOf(response[2])) = "arr") =>
        LET raw == ApproversOf(response[2])[2]
        IN  FirstBad(raw) = 0 =>
                /\ Kind(result) = "gate"
                /\ Len(result[6]) = Len(raw)
                /\ \A i \in 1..Len(raw) :
                    LET tag == Index(raw[i], "eligibilityType")[2]
                    IN  /\ result[6][i][1] = ApproverOfTag(tag)
                        /\ result[6][i][2] = tag
                        /\ result[6][i][3] = StringField(raw[i], FieldOfTag(tag))

C8_Witness ==
    /\ Answered("GetChangeGate")
    /\ Kind(result) = "gate"
    /\ Len(result[6]) = 3
    /\ result[6][1][1] = "EnvironmentChangeGateTeamApprover"
    /\ result[6][2][1] = "EnvironmentChangeGatePermissionApprover"
    /\ result[6][3][1] = "EnvironmentChangeGateUserApprover"
    /\ result[6][3][3] = "alice"

\* C9: in the body of a create or update request, the element encoded from a
\* rule is an object with exactly two fields: eligibilityType, equal to the tag
\* of the rule's variant, and the variant's own field with the rule's value;
\* no field of another variant is present.
C9_EncodesOwnFieldOnly ==
    (op \in {"CreateEnvironmentChangeGate", "UpdateEnvironmentChangeGate"} /\ payload # Nil) =>
        LET sent == ApproversOf(payload)[2]
        IN  \A i \in 1..Len(sent) :
                LET type == lastConfig[5][i][1]
                IN  /\ Kind(sent[i]) = "obj"
                    /\ DOMAIN sent[i][2] = {"eligibilityType", FieldOfTag(TagOf(type))}
                    /\ sent[i][2]["eligibilityType"] = JStr(TagOf(type))
                    /\ sent[i][2][FieldOfTag(TagOf(type))] = JStr(lastConfig[5][i][3])

C9_Witness ==
    /\ op = "CreateEnvironmentChangeGate" /\ payload # Nil
    /\ AllVariantsBuilt
    /\ Len(ApproversOf(payload)[2]) = 3

\* C10: the eligibleApprovers array of a create payload, and of an update
\* payload given the built rules, has one element per rule added to the
\* builder, the i-th being the encoding of the i-th rule added.
C10_PayloadKeepsOrder ==
    (op \in {"CreateEnvironmentChangeGate", "UpdateEnvironmentChangeGate"} /\ payload # Nil) =>
        LET sent == ApproversOf(payload)[2]
        IN  /\ op = "CreateEnvironmentChangeGate" => lastConfig[5] = rules
            /\ lastConfig[5] = rules =>
                /\ Len(sent) = Len(rules)
                /\ \A i \in 1..Len(rules) : sent[i] = MarshalEligibilityInput(rules[i])

C10_Witness ==
    /\ op = "UpdateEnvironmentChangeGate" /\ payload # Nil
    /\ lastConfig[5] = rules
    /\ Len(rules) = 3
    /\ rules[1][1] # rules[2][1] /\ rules[2][1] # rules[3][1]

-----------------------------------------------------------------------------
(* The body of a gate request *)

\* C11: the body of every create request has the rule type approval_required,
\* the numApprovalsRequired, allowSelfApproval and requireReapprovalOnChange
\* of the configuration handed to the call, and a target with entityType
\* environment, the qualified name <project>/<name> and actionTypes [update].
C11_CreatePayload ==
    (op = "CreateEnvironmentChangeGate" /\ payload # Nil) =>
        LET rule == Index(payload, "rule")
            target == Index(payload, "target")
        IN  /\ Index(rule, "ruleType") = JStr("approval_required")
            /\ Index(rule, "numApprovalsRequired") = JNum(lastConfig[4])
            /\ Index(rule, "allowSelfApproval") = lastConfig[6]
            /\ Index(rule, "requireReapprovalOnChange") = lastConfig[7]
            /\ Kind(target) = "obj"
            /\ DOMAIN target[2] = {"entityType", "qualifiedName", "actionTypes"}
            /\ target[2]["entityType"] = JStr("environment")
            /\ target[2]["qualifiedName"] = <<"str", <<ProjectName, "/", EnvName>>>>
            /\ target[2]["actionTypes"] = JArr(<<JStr("update")>>)

C11_Witness ==
    /\ op = "CreateEnvironmentChangeGate" /\ payload # Nil
    /\ lastConfig[4] = 2
    /\ lastConfig[6] = JBool(TRUE)
    /\ lastConfig[7] = JBool(FALSE)
    /\ Len(rules) >= 1

\* C12 as stated: the body of an update request carries the rule type and the
\* approval settings and no target descriptor.
C12_UpdateHasNoTarget ==
    (op = "UpdateEnvironmentChangeGate" /\ payload # Nil) =>
        /\ Index(Index(payload, "rule"), "ruleType") = JStr("approval_required")
        /\ ~HasKey(payload, "target")

\* C12: the body of an update request carries the rule type and the approval
\* settings of the configuration, and a target that holds actionTypes
\* [update] and nothing else: no entityType and no qualified name.
C12_UpdateTargetHasActionTypesOnly ==
    (op = "UpdateEnvironmentChangeGate" /\ payload # Nil) =>
        LET rule == Index(payload, "rule")
            target == Index(payload, "target")
        IN  /\ Index(rule, "ruleType") = JStr("approval_required")
            /\ Index(rule, "numApprovalsRequired") = JNum(lastConfig[4])
            /\ Index(rule, "allowSelfApproval") = lastConfig[6]
            /\ Index(rule, "requireReapprovalOnChange") = lastConfig[7]
            /\ Kind(target) = "obj"
            /\ DOMAIN target[2] = {"actionTypes"}
            /\ target[2]["actionTypes"] = JArr(<<JStr("update")>>)

C12_Witness ==
    /\ op = "UpdateEnvironmentChangeGate" /\ payload # Nil
    /\ lastConfig[4] = 2
    /\ Len(lastConfig[5]) >= 1
    /\ HasKey(payload, "target")

-----------------------------------------------------------------------------
(* Navigation by path *)

\* Where the segments lead in the tree as the service sent it, from segment i
\* on in the mapping of children m: <<"node", the node reached>>,
\* <<"NotFound", i>> when segment i is no key of the mapping it is looked up
\* in, <<"NotAnObject", i>> when segment i, not the last, leads to a node whose
\* payload is not a mapping
RECURSIVE Leads(_, _, _)
Leads(m, segments, i) ==
    IF ~HasKey(m, segments[i]) THEN <<"NotFound", i>>
    ELSE IF i = Len(segments) THEN <<"node", m[2][segments[i]]>>
    ELSE IF Kind(Index(m[2][segments[i]], "value")) = "obj"
    THEN Leads(Index(m[2][segments[i]], "value"), segments, i + 1)
    ELSE <<"NotAnObject", i>>

\* The plain value of a node of the tree as sent: its payload without any
\* annotation at any depth, numbers as C# unwraps them
RECURSIVE PlainOf(_)
PlainOf(node) ==
    LET v == Index(node, "value")
    IN  CASE Kind(v) = "arr" -> JArr([i \in 1..Len(v[2]) |-> PlainOf(v[2][i])])
          [] Kind(v) = "obj" -> JObj([k \in DOMAIN v[2] |-> PlainOf(v[2][k])])
          [] OTHER -> UnwrapJsonElement(v)

\* A property was read by its path and the environment was fetched
Navigated == op = "CsReadOpenEnvironmentPropertyAsync" /\ before # Nil

\* C13: when every segment of the path is a key of the mapping reached by the
\* segments before it, the read returns the node the path leads to, and the
\* plain value it returns with it is the plain value of that node.
C13_ResolveReturnsNodeAndPlainValue ==
    Navigated =>
        LET end == Leads(wire, Split(propertyPath), 1)
        IN  end[1] = "node" =>
                /\ found = CsDeserializeValue(end[2])
                /\ out = PlainOf(end[2])

NotFoundMessages == {"Property not found in environment", "Property not found at path"}

\* C14: when a segment of the path is not a key of the mapping reached by the
\* segments before it (of the root for the first segment), the read ends with
\* the not-found exception naming the path up to that segment, and returns
\* neither a node nor a value.
C14_MissingSegmentNotFound ==
    Navigated =>
        LET end == Leads(wire, Split(propertyPath), 1)
        IN  end[1] = "NotFound" =>
                /\ IsException(found)
                /\ found[2] \in NotFoundMessages
                /\ found[3] = end[2]
                /\ out = Nil

C14_Witness ==
    /\ Navigated
    /\ Len(Split(propertyPath)) = 3
    /\ Leads(wire, Split(propertyPath), 1) = <<"NotFound", 2>>
    /\ found = EscApiException("Property not found at path", 2)

\* C15: when a segment of the path that is not the last leads to a node whose
\* payload is a scalar or a sequence, the read ends with the exception for a
\* non-object value, naming the path up to that segment, whatever segments
\* follow; its message is not one of the not-found messages.
C15_ScalarInTheWayNotAnObject ==
    Navigated =>
        LET end == Leads(wire, Split(propertyPath), 1)
        IN  end[1] = "NotAnObject" =>
                /\ found = EscApiException("Cannot navigate into non-object value", end[2])
                /\ found[2] \notin NotFoundMessages
                /\ out = Nil

C15_Witness ==
    /\ Navigated
    /\ Len(Split(propertyPath)) = 3
    /\ Leads(wire, Split(propertyPath), 1) = <<"NotAnObject", 2>>
    /\ IsException(found)

\* C16: the node a read by path returns is an annotated node: it carries the
\* secret flag, the unknown flag and the trace of the node the path leads to,
\* and its payload is that node's payload as sent, not a plain value.
C16_ResolveKeepsAnnotations ==
    Navigated =>
        LET end == Leads(wire, Split(propertyPath), 1)
        IN  end[1] = "node" =>
                /\ Kind(found) = "Value"
                /\ found[2] = <<"JsonElement", Index(end[2], "value")>>
                /\ found[3] = getBoolPtr(end[2], "secret")
                /\ found[4] = getBoolPtr(end[2], "unknown")
                /\ found[5] = DecodeProperty(end[2])[5]

C16_Witness ==
    /\ Navigated
    /\ Len(Split(propertyPath)) = 2
    /\ Kind(found) = "Value"
    /\ found[3] = JBool(TRUE)
    /\ found[5][2] # Nil

-----------------------------------------------------------------------------
(* Projection of sequences, mappings and numbers *)

\* In plain, the projection of node, every sequence at every depth has one
\* element per child of the sequence node, the i-th being the projection of
\* the i-th child (cs: the tree is a C# tree, projected by MapValuePrimitive)
RECURSIVE SequencesProjected(_, _, _)
SequencesProjected(node, plain, cs) ==
    IF IsSequence(node)
    THEN /\ Kind(plain) = "arr"
         /\ Len(plain[2]) = Len(node[2][2])
         /\ \A i \in 1..Len(node[2][2]) :
                /\ plain[2][i] = IF cs THEN MapValuePrimitive(node[2][2][i])
                                 ELSE mapValuesPrimitive(node[2][2][i])
                /\ SequencesProjected(node[2][2][i], plain[2][i], cs)
    ELSE IF IsMapping(node)
    THEN \A k \in DOMAIN node[2][2] :
            HasKey(plain, k) /\ SequencesProjected(node[2][2][k], plain[2][k], cs)
    ELSE TRUE

Held(child) ==
    IF HasKey(child, "value") /\ HasKey(child, "trace") THEN child[2]["value"] ELSE child

\* plain is the projection of the decoded document sent: a mapping for a
\* mapping, with the same keys, a sequence for a sequence, with the same
\* length, each child projected in its place, and a scalar as it is held
RECURSIVE MappingsProjected(_, _)
MappingsProjected(sent, plain) ==
    LET p == Held(sent)
    IN  CASE Kind(p) = "obj" ->
                /\ Kind(plain) = "obj"
                /\ DOMAIN plain[2] = DOMAIN p[2]
                /\ \A k \in DOMAIN p[2] : MappingsProjected(p[2][k], plain[2][k])
          [] Kind(p) = "arr" ->
                /\ Kind(plain) = "arr"
                /\ Len(plain[2]) = Len(p[2])
                /\ \A i \in 1..Len(p[2]) : MappingsProjected(p[2][i], plain[2][i])
          [] OTHER -> plain = p

\* C18: the projection of a mapping has exactly the keys of the mapping that
\* was sent, the keys whose child is null among them, and under each key the
\* projection of that child (Go and TypeScript, whenever a projection is
\* returned).
C18_MappingKeysKept ==
    (op \in {"GoReadOpenEnvironment", "TsReadOpenEnvironment"} /\ Kind(out) = "obj") =>
        \A k \in DOMAIN wire[2] :
            HasKey(out, k) /\ MappingsProjected(Unmarshal(wire[2][k]), out[2][k])


\* plain, a C# number, has the value of the JSON number element and its
\* representation: an integer for an integer literal, a double for a literal
\* with a fraction part
SameNumber(element, plain) ==
    CASE Kind(element) = "num" -> plain = <<"long", element[2]>>
      [] Kind(element) = "frac" -> plain = <<"doubleFrac", element[2]>>
      [] Kind(element) = "big" ->
            Kind(plain) \notin {"double", "doubleBig", "doubleFrac"} /\ plain[2] = element[2]

\* Every number of the decoded document tree is, at its place in plain, the
\* same number (cs: tree is what a JsonElement holds, plain is made of C# values)
RECURSIVE NumbersKept(_, _, _)
NumbersKept(tree, plain, cs) ==
    CASE Kind(tree) \in {"num", "big", "frac"} ->
            IF cs THEN SameNumber(tree, plain) ELSE plain = tree
      [] Kind(tree) = "obj" ->
            /\ Kind(plain) = "obj"
            /\ \A k \in DOMAIN tree[2] :
                    HasKey(plain, k) /\ NumbersKept(tree[2][k], plain[2][k], cs)
      [] Kind(tree) = "arr" ->
            /\ Kind(plain) = "arr"
            /\ Len(plain[2]) = Len(tree[2])
            /\ \A i \in 1..Len(tree[2]) : NumbersKept(tree[2][i], plain[2][i], cs)
      [] OTHER -> TRUE

\* C19: every number comes out of the projection with the value and the
\* representation, integer or floating point, it has in the decoded tree that
\* was projected: no conversion between the two, no loss of precision (C#: the
\* JsonElement payload of each property; Go: the decoded payload of a property).
C19_NumbersKept ==
    /\ (op = "CsReadOpenEnvironmentAsync" /\ before # Nil) =>
            \A k \in DOMAIN wire[2] :
                NumbersKept(Index(wire[2][k], "value"), out[2][k], TRUE)
    /\ (op = "GoReadEnvironmentProperty" /\ before # Nil) =>
            NumbersKept(before[2], out, FALSE)


-----------------------------------------------------------------------------
(* Documents that are not well-formed trees *)

\* C20: whatever document the service answers with, reading the environment
\* returns values or an error to the caller; it never panics.
C20_NeverPanics == out # Panic


-----------------------------------------------------------------------------
(* Default credentials and the URL of the API *)

\* A C# string? or a Go string is <<"str", s>>, or Nil for null.
\* <<"PulumiCredentials", current, accounts, accessTokens>> is credentials.json,
\* accounts an <<"obj", f>> of <<"PulumiAccountCredentials", accessToken>> and
\* accessTokens an <<"obj", f>> of strings; <<"EscCredentials", name>> is
\* .esc/credentials.json. Nil stands for a file that is missing or malformed.

IsNullOrEmpty(s) == s = Nil \/ s = JStr("")

InvalidOperationException == <<"InvalidOperationException">>

\* escCredentials?.Name
NameOf(escCredentials) == IF escCredentials = Nil THEN Nil ELSE escCredentials[2]

\* A current URL that looks at the Pulumi credentials first
GetCurrentUrlPulumiFirst(credentials, escCredentials) ==
    IF credentials # Nil /\ ~IsNullOrEmpty(credentials[2]) THEN credentials[2]
    ELSE NameOf(escCredentials)

GetCurrentUrl(credentials, escCredentials) ==
    IF ~IsNullOrEmpty(NameOf(escCredentials)) THEN escCredentials[2]
    ELSE IF credentials = Nil THEN Nil ELSE credentials[2]

GetDefaultAccessToken(envToken, credentials, escCredentials) ==
    IF ~IsNullOrEmpty(envToken) THEN envToken
    ELSE LET currentUrl == GetCurrentUrl(credentials, escCredentials)
         IN  IF /\ currentUrl # Nil /\ credentials # Nil /\ credentials[3] # Nil
                /\ HasKey(credentials[3], currentUrl[2])
                /\ ~IsNullOrEmpty(credentials[3][2][currentUrl[2]][2])
             THEN credentials[3][2][currentUrl[2]][2]
             ELSE IF /\ currentUrl # Nil /\ credentials # Nil /\ credentials[4] # Nil
                     /\ HasKey(credentials[4], currentUrl[2])
                     /\ ~IsNullOrEmpty(credentials[4][2][currentUrl[2]])
             THEN credentials[4][2][currentUrl[2]]
             ELSE InvalidOperationException

\* The account URLs of the credential files
AccountUrls == {"https://api.moolumi.com", "https://api.boolumi.com"}

\* The maps from some of the keys to values of V
PartialMaps(keys, V) == UNION {[d -> V] : d \in SUBSET keys}

OptionalUrls == {Nil, JStr("")} \cup {JStr(u) : u \in AccountUrls}

PulumiCredentialFiles ==
    {Nil} \cup
    {<<"PulumiCredentials", current, accounts, accessTokens>> :
        current \in OptionalUrls,
        accounts \in {Nil} \cup
            {JObj(f) : f \in PartialMaps(AccountUrls,
                {<<"PulumiAccountCredentials", t>> : t \in {Nil, JStr(""), JStr("pul-fake-token")}})},
        accessTokens \in {Nil} \cup
            {JObj(f) : f \in PartialMaps(AccountUrls, {JStr(""), JStr("pul-old-token")})}}

EscCredentialFiles == {Nil} \cup {<<"EscCredentials", name>> : name \in OptionalUrls}

\* C#: EscAuth.GetDefaultAccessToken, given PULUMI_ACCESS_TOKEN and the two files
CsGetDefaultAccessToken ==
    /\ op = "idle"
    /\ op' = "CsGetDefaultAccessToken"
    /\ \E envToken \in {Nil, JStr(""), JStr("env-token-123")},
          credentials \in PulumiCredentialFiles, escCredentials \in EscCredentialFiles :
            /\ given' = <<envToken, credentials, escCredentials>>
            /\ returned' = GetDefaultAccessToken(envToken, credentials, escCredentials)
    /\ UNCHANGED <<wire, before, held, out, propertyPath, found, rules, lastConfig, payload,
                   response, result>>


\* The non-empty tokens the credentials store for url, under accounts or under
\* accessTokens
StoredTokens(credentials, url) ==
    IF credentials = Nil \/ url = Nil THEN {}
    ELSE {t \in (IF HasKey(credentials[3], url[2])
                 THEN {credentials[3][2][url[2]][2]} ELSE {})
                \cup (IF HasKey(credentials[4], url[2])
                      THEN {credentials[4][2][url[2]]} ELSE {}) :
            ~IsNullOrEmpty(t)}

\* C21: a non-empty PULUMI_ACCESS_TOKEN is returned whatever the files hold;
\* otherwise a token stored for the current URL, which is the name of the ESC
\* credentials when that is not empty and the current of the Pulumi
\* credentials otherwise; with no token stored for it the call fails, and it
\* never returns an empty token.
C21_TokenByPrecedence ==
    op = "CsGetDefaultAccessToken" =>
        LET envToken == given[1]
            credentials == given[2]
            name == IF given[3] = Nil THEN Nil ELSE given[3][2]
            url == IF name # Nil /\ name # JStr("") THEN name
                   ELSE IF credentials = Nil THEN Nil ELSE credentials[2]
        IN  /\ returned # Nil /\ returned # JStr("")
            /\ (envToken # Nil /\ envToken # JStr("")) => returned = envToken
            /\ (envToken = Nil \/ envToken = JStr("")) =>
                    IF StoredTokens(credentials, url) = {}
                    THEN returned = InvalidOperationException
                    ELSE returned \in StoredTokens(credentials, url)

\* With no token in the environment, the ESC credentials named one account and
\* the Pulumi credentials another, both with a token: the token of the first
\* was returned
C21_Witness ==
    /\ op = "CsGetDefaultAccessToken"
    /\ given[1] = JStr("")
    /\ given[3] = <<"EscCredentials", JStr("https://api.boolumi.com")>>
    /\ given[2] = <<"PulumiCredentials", JStr("https://api.moolumi.com"),
                    JObj([u \in {"https://api.boolumi.com"} |->
                            <<"PulumiAccountCredentials", JStr("pul-fake-token")>>]),
                    JObj([u \in {"https://api.moolumi.com"} |-> JStr("pul-old-token")])>>
    /\ returned = JStr("pul-fake-token")


\* A URL is the sequence of its parts: <<scheme, "://", host>>, then ":" and a
\* port when it names one, then one "/" for each slash after it.

\* backendUrl.TrimEnd('/')
RECURSIVE TrimEnd(_)
TrimEnd(s) ==
    IF Len(s) > 0 /\ s[Len(s)] = "/" THEN TrimEnd(SubSeq(s, 1, Len(s) - 1)) ELSE s

\* The port a scheme implies
DefaultPort(scheme) == IF scheme = "https" THEN "443" ELSE "80"

\* new Uri(s): <<"Uri", Scheme, Host, Port>>, the port of the scheme when s names none
ParseUri(s) ==
    <<"Uri", s[1], s[3], IF Len(s) >= 5 /\ s[4] = ":" THEN s[5] ELSE DefaultPort(s[1])>>

\* uri.IsDefaultPort
IsDefaultPort(uri) == uri[4] = DefaultPort(uri[2])

\* C#: EscAuth.GetEscApiUrl
GetEscApiUrl(backendUrl) ==
    LET uri == ParseUri(TrimEnd(backendUrl))
    IN  <<uri[2], "://", uri[3]>> \o (IF IsDefaultPort(uri) THEN <<>> ELSE <<":", uri[4]>>)
            \o <<"/api/esc">>

\* Go: url.Parse(s): <<"URL", Scheme, Host>>, Host with the port when s names one
ParseURL(s) ==
    <<"URL", s[1], IF Len(s) >= 5 /\ s[4] = ":" THEN <<s[3], ":", s[5]>> ELSE <<s[3]>> >>

\* Go: u.Hostname(): the host without any port
Hostname(u) == u[3][1]

\* Go: NewCustomBackendConfiguration: the URL of the one server of the configuration
NewCustomBackendConfiguration(customBackendURL) ==
    <<customBackendURL[2], "://", Hostname(customBackendURL), "/api/esc">>

\* The backend URLs a caller configures
MaxSlashes == 2

BackendUrls ==
    {<<scheme, "://", host>> \o port \o [i \in 1..n |-> "/"] :
        scheme \in {"http", "https"},
        host \in {"api.pulumi.com", "localhost"},
        port \in {<<>>, <<":", "80">>, <<":", "443">>, <<":", "8080">>},
        n \in 0..MaxSlashes}

CsGetEscApiUrl ==
    /\ op = "idle"
    /\ op' = "CsGetEscApiUrl"
    /\ \E backendUrl \in BackendUrls :
            given' = backendUrl /\ returned' = GetEscApiUrl(backendUrl)
    /\ UNCHANGED <<wire, before, held, out, propertyPath, found, rules, lastConfig, payload,
                   response, result>>

\* Go: NewDefaultClient, from the URL of the backend on
GoNewCustomBackendConfiguration ==
    /\ op = "idle"
    /\ op' = "GoNewCustomBackendConfiguration"
    /\ \E backendUrl \in BackendUrls :
            given' = backendUrl
            /\ returned' = NewCustomBackendConfiguration(ParseURL(backendUrl))
    /\ UNCHANGED <<wire, before, held, out, propertyPath, found, rules, lastConfig, payload,
                   response, result>>

\* C22: the URL of the ESC API made from a backend URL is scheme://host/api/esc
\* with the scheme and the host of the backend URL, and with its port between
\* the two when it names one that its scheme does not imply; slashes at the
\* end of the backend URL change nothing.
C22_ApiUrlKeepsPort ==
    op \in {"CsGetEscApiUrl", "GoNewCustomBackendConfiguration"} =>
        LET named == Len(given) >= 5 /\ given[4] = ":"
            withPort == <<given[1], "://", given[3], ":", given[5], "/api/esc">>
            without == <<given[1], "://", given[3], "/api/esc">>
        IN  IF ~named THEN returned = without
            ELSE IF given[5] # DefaultPort(given[1]) THEN returned = withPort
            ELSE returned \in {withPort, without}


-----------------------------------------------------------------------------
(* Checking a definition *)

\* The service answers a check with <<"Answer", status, body>>, the body a JSON
\* document or Nil for none; <<"NoAnswer">> stands for a request that got none.
\* <<"CheckEnvironment", diagnostics>> is the decoded result, diagnostics the
\* sequence of the summaries.

MaxDiagnostics == 2

DiagnosticsBody(summaries) ==
    JObj([diagnostics |-> JArr([i \in 1..Len(summaries) |->
                                    JObj([summary |-> JStr(summaries[i])])])])

CheckBodies ==
    {DiagnosticsBody(s) : s \in SeqsUpTo({"unknown property", "cycle"}, MaxDiagnostics)}

\* The JSON decoder of CheckEnvironment
DecodeCheckEnvironment(body) ==
    <<"CheckEnvironment",
      [i \in 1..Len(Index(body, "diagnostics")[2]) |->
            Index(body, "diagnostics")[2][i][2]["summary"][2]]>>

\* Go: the generated CheckEnvironmentYaml(...).Execute(): the result and the
\* error, a GenericOpenAPIError with the decoded body as its model for a 400
CheckEnvironmentYamlExecute(answer) ==
    IF Kind(answer) = "NoAnswer" THEN <<Nil, <<"error">> >>
    ELSE IF answer[2] = 200 THEN <<DecodeCheckEnvironment(answer[3]), Nil>>
    ELSE <<Nil, <<"GenericOpenAPIError", DecodeCheckEnvironment(answer[3])>> >>

\* A wrapper that returns what the generated call returned
CheckEnvironmentYamlAsIs(answer) == CheckEnvironmentYamlExecute(answer)

\* Go: EscClient.CheckEnvironmentYaml
CheckEnvironmentYaml(answer) ==
    LET r == CheckEnvironmentYamlExecute(answer)
    IN  IF r[2] # Nil /\ Kind(r[2]) = "GenericOpenAPIError" THEN <<r[2][2], r[2]>> ELSE r

\* C#: EscClient.CheckEnvironmentYamlAsync, given (statusCode, content)
CheckEnvironmentYamlAsync(answer) ==
    IF answer[2] \in {200, 400}
    THEN IF answer[3] # Nil THEN DecodeCheckEnvironment(answer[3]) ELSE Nil
    ELSE EscApiException("CheckEnvironmentYaml failed with status code", answer[2])

\* TypeScript: EscApi.checkEnvironmentYaml
checkEnvironmentYaml(answer) ==
    IF answer[2] \in {200, 400} THEN answer[3] ELSE <<"Error">>

GoCheckEnvironmentYaml ==
    /\ op = "idle"
    /\ op' = "GoCheckEnvironmentYaml"
    /\ \E answer \in {<<"NoAnswer">>} \cup ({"Answer"} \X {200, 400} \X CheckBodies) :
            given' = answer /\ returned' = CheckEnvironmentYaml(answer)
    /\ UNCHANGED <<wire, before, held, out, propertyPath, found, rules, lastConfig, payload,
                   response, result>>

CsCheckEnvironmentYamlAsync ==
    /\ op = "idle"
    /\ op' = "CsCheckEnvironmentYamlAsync"
    /\ \E answer \in ({"Answer"} \X {200, 400} \X (CheckBodies \cup {Nil}))
                        \cup ({"Answer"} \X {401, 404, 500} \X {Nil}) :
            given' = answer /\ returned' = CheckEnvironmentYamlAsync(answer)
    /\ UNCHANGED <<wire, before, held, out, propertyPath, found, rules, lastConfig, payload,
                   response, result>>

TsCheckEnvironmentYaml ==
    /\ op = "idle"
    /\ op' = "TsCheckEnvironmentYaml"
    /\ \E answer \in ({"Answer"} \X {200, 400} \X CheckBodies)
                        \cup ({"Answer"} \X {401, 404, 500} \X {Nil}) :
            given' = answer /\ returned' = checkEnvironmentYaml(answer)
    /\ UNCHANGED <<wire, before, held, out, propertyPath, found, rules, lastConfig, payload,
                   response, result>>

\* The check was answered with status 400 and a body of diagnostics
Rejected ==
    /\ op \in {"GoCheckEnvironmentYaml", "CsCheckEnvironmentYamlAsync", "TsCheckEnvironmentYaml"}
    /\ Kind(given) = "Answer" /\ given[2] = 400 /\ given[3] # Nil

\* C23: when the service rejects a definition with status 400 and a body of
\* diagnostics, the caller is handed a result that holds those diagnostics,
\* in Go next to the error, never the error alone.
C23_DiagnosticsHandedOver ==
    /\ (op = "GoCheckEnvironmentYaml" /\ Rejected) =>
            /\ returned[1] = DecodeCheckEnvironment(given[3])
            /\ returned[2] # Nil
    /\ (op = "CsCheckEnvironmentYamlAsync" /\ Rejected) =>
            returned = DecodeCheckEnvironment(given[3])
    /\ (op = "TsCheckEnvironmentYaml" /\ Rejected) => returned = given[3]

\* Go was handed the one diagnostic of a rejected definition
C23_Witness ==
    /\ op = "GoCheckEnvironmentYaml" /\ Rejected
    /\ returned[1] = <<"CheckEnvironment", <<"unknown property">> >>
    /\ returned[2] # Nil


-----------------------------------------------------------------------------
(* Mappings with a key named value *)

\* C24: a mapping of the definition with a key named value, alone or next to
\* a key named trace, is projected as a mapping with those keys, each with the
\* projection of its child; it is not taken for the annotations of one value
\* (Go and TypeScript).
C24_ValueKeyIsAKey ==
    (/\ op \in {"GoReadOpenEnvironment", "TsReadOpenEnvironment"}
     /\ Index(wire[2]["foo"], "value") \in MappingsWithValueKey
     /\ out # Nil /\ out # Failed) =>
        /\ Kind(out) = "obj"
        /\ out[2]["foo"] =
            JObj([k \in DOMAIN wire[2]["foo"][2]["value"][2] |->
                    wire[2]["foo"][2]["value"][2][k][2]["value"]])


-----------------------------------------------------------------------------
(* Updating a gate from the gate that was read *)

\* The step is an update with the configuration made from the gate held,
\* with no further setting
UpdatesFromGate ==
    /\ op # "UpdateEnvironmentChangeGate" /\ op' = "UpdateEnvironmentChangeGate"
    /\ Kind(result) = "gate"
    /\ lastConfig' = NewChangeGateUpdateFromGate(result)

\* The eligibleApprovers array sent says what the decoded approvers say
ApproversCarried(sent, approvers) ==
    /\ Kind(sent) = "arr"
    /\ Len(sent[2]) = Len(approvers)
    /\ \A i \in 1..Len(approvers) :
            /\ Index(sent[2][i], "eligibilityType") = JStr(approvers[i][2])
            /\ Index(sent[2][i], FieldOfTag(approvers[i][2])) = JStr(approvers[i][3])

\* The settings of the gate, without its approvers, are in the body sent
SettingsCarried(body, gate) ==
    /\ body # Nil
    /\ Index(body, "name") = JStr(gate[2][3])
    /\ Index(body, "enabled") = JBool(gate[2][4])
    /\ Index(Index(body, "rule"), "numApprovalsRequired") = JNum(gate[3])
    /\ Index(Index(body, "rule"), "allowSelfApproval") = gate[4]
    /\ Index(Index(body, "rule"), "requireReapprovalOnChange") = gate[5]

\* C25: an update made with NewChangeGateUpdateFromGate(g) and nothing else
\* sends the name, the enabled flag, numApprovalsRequired, the two approval
\* booleans and the eligible approvers of g.
C25_UpdateFromGateKeepsGate ==
    [][UpdatesFromGate =>
            /\ SettingsCarried(payload', result)
            /\ ApproversCarried(ApproversOf(payload'), result[6])]_vars


\* C26: creating or updating a gate never panics, whatever the configuration:
\* with AllowSelfApproval or RequireReapprovalOnChange unset the call returns
\* an error or sends a default.
C26_GateCallsNeverPanic ==
    op \in {"CreateEnvironmentChangeGate", "UpdateEnvironmentChangeGate"} => result # Panic


-----------------------------------------------------------------------------
(* Listing the gates of an environment *)

\* The most gates a list response carries
MaxGates == 2

\* The gates a list response can carry, each with its own id, name, enabled
\* flag, settings and approvers
ListedGateDocs ==
    {JObj([id |-> JStr("gate-1"), name |-> JStr("first"), enabled |-> JBool(TRUE),
           rule |-> JObj([ruleType |-> JStr("approval_required"),
                          numApprovalsRequired |-> JNum(1),
                          allowSelfApproval |-> JBool(TRUE),
                          requireReapprovalOnChange |-> JBool(FALSE),
                          eligibleApprovers |-> JArr(<<JObj([eligibilityType |-> JStr("has_user_login"),
                                                             userLogin |-> JStr("alice")])>>)])]),
     JObj([id |-> JStr("gate-2"), name |-> JStr("second"), enabled |-> JBool(FALSE),
           rule |-> JObj([ruleType |-> JStr("approval_required"),
                          numApprovalsRequired |-> JNum(2),
                          allowSelfApproval |-> JBool(FALSE),
                          requireReapprovalOnChange |-> JBool(TRUE),
                          eligibleApprovers |-> JArr(<<JObj([eligibilityType |-> JStr("has_team_membership"),
                                                             teamName |-> JStr("devs")])>>)])]),
     JObj([id |-> JStr("gate-3"), name |-> JStr("third"), enabled |-> JBool(TRUE),
           rule |-> JObj([ruleType |-> JStr("approval_required"),
                          numApprovalsRequired |-> JNum(1),
                          eligibleApprovers |-> JArr(<<JObj([eligibilityType |-> JStr("has_group_membership"),
                                                             groupName |-> JStr("ops")])>>)])])}

ListBodies == {JObj([gates |-> JArr(g)]) : g \in SeqsUpTo(ListedGateDocs, MaxGates)}

\* The variable of a range loop is one variable for the whole loop or one per
\* iteration, by the language version the module is built with
RangeVariables == {"per-loop", "per-iteration"}

\* The *ChangeGate every element is given: the loop takes the address of its
\* range variable, which holds the last element once the loop has ended
gateOfIteration(listed, i, rangeVariable) ==
    IF rangeVariable = "per-iteration" THEN listed[i] ELSE listed[Len(listed)]

\* <<"gates", Gates>> or the first error
listEnvironmentChangeGatesWithRawJSON(answer, rangeVariable) ==
    IF answer[1] < 200 \/ answer[1] >= 300 THEN Err("HTTP request failed", -1, Nil)
    ELSE LET raw == Index(answer[2], "gates")[2]
             listed == [i \in 1..Len(raw) |-> UnmarshalChangeGate(raw[i])]
             enhancedGates == [i \in 1..Len(raw) |->
                                 parseEnhancedGateFromJSON(raw[i], gateOfIteration(listed, i, rangeVariable))]
             failing == {i \in 1..Len(raw) : IsErr(enhancedGates[i])}
         IN  IF failing # {}
             THEN enhancedGates[CHOOSE i \in failing : \A j \in failing : i <= j]
             ELSE <<"gates", enhancedGates>>

GoListEnvironmentChangeGates ==
    /\ op = "idle"
    /\ op' = "ListEnvironmentChangeGates"
    /\ \E answer \in {<<200, body>> : body \in ListBodies}
                        \cup {<<500, JObj([message |-> JStr("internal error")])>>},
          rangeVariable \in RangeVariables :
            /\ given' = <<"ListCall", answer, rangeVariable>>
            /\ returned' = listEnvironmentChangeGatesWithRawJSON(answer, rangeVariable)
    /\ UNCHANGED <<wire, before, held, out, propertyPath, found, rules, lastConfig, payload,
                   response, result>>

\* The i-th gate returned is the i-th element of the response
GateOfElement(gate, element) ==
    /\ gate[2][2] = StringField(element, "id")
    /\ gate[2][3] = StringField(element, "name")
    /\ gate[2][4] = (Index(element, "enabled") = JBool(TRUE))
    /\ gate[3] = Index(Index(element, "rule"), "numApprovalsRequired")[2]
    /\ gate[4] = Index(Index(element, "rule"), "allowSelfApproval")
    /\ gate[5] = Index(Index(element, "rule"), "requireReapprovalOnChange")
    /\ LET sent == Index(Index(element, "rule"), "eligibleApprovers")[2]
       IN  /\ Len(gate[6]) = Len(sent)
           /\ \A k \in 1..Len(sent) : gate[6][k] = parseApprover(sent[k], k - 1)

Listed == op = "ListEnvironmentChangeGates" /\ Kind(returned) = "gates"

-----------------------------------------------------------------------------
(* Reading a definition with its secrets decrypted *)

\* <<"Execute", env, resp, err>> is what the generated
\* DecryptEnvironment(...).Execute() returned: resp is Nil when the request
\* got no response, else <<"Response", status, body, readable>>, and err is Nil
\* when the call succeeded. <<"Returned", env, body, err>> is what
\* DecryptEnvironment returns.
DecryptEnvironmentExecutions ==
    {<<"Execute", <<"EnvironmentDefinition", "values">>,
                  <<"Response", 200, "values: {}", TRUE>>, Nil>>,
     <<"Execute", Nil, Nil, <<"error", "connection refused">> >>}
    \cup {<<"Execute", Nil, <<"Response", status, "not allowed", readable>>,
                       <<"GenericOpenAPIError", status>> >> :
            status \in {401, 404, 500}, readable \in BOOLEAN}

\* io.ReadAll(resp.Body): the bytes read and the error
ReadAll(resp) ==
    IF resp[4] THEN <<resp[3], Nil>> ELSE <<"", <<"error", "unexpected EOF">> >>

\* Go: EscClient.DecryptEnvironment; resp.Body of a nil resp is a nil pointer
\* dereference
DecryptEnvironment(execution) ==
    LET env == execution[2]
        resp == execution[3]
        err == execution[4]
    IN  IF resp = Nil THEN Panic
        ELSE LET read == ReadAll(resp)
             IN  IF err # Nil THEN <<"Returned", Nil, "", read[2]>>
                 ELSE <<"Returned", env, read[1], err>>

GoDecryptEnvironment ==
    /\ op = "idle"
    /\ op' = "GoDecryptEnvironment"
    /\ \E execution \in DecryptEnvironmentExecutions :
            given' = execution /\ returned' = DecryptEnvironment(execution)
    /\ UNCHANGED <<wire, before, held, out, propertyPath, found, rules, lastConfig, payload,
                   response, result>>

\* C28: DecryptEnvironment returns an error whenever the call failed, with or
\* without a response: it never returns no definition with no error, and it
\* never panics.
C28_DecryptFailureIsAnError ==
    (op = "GoDecryptEnvironment" /\ given[4] # Nil) =>
        /\ Kind(returned) = "Returned"
        /\ returned[4] # Nil


-----------------------------------------------------------------------------
(* The tool that filters the OpenAPI document of the service *)

\* A string the tool takes apart is the sequence of its parts: an operationId
\* is its stem followed by its suffix parts (<<"Foo", "_esc">> is Foo_esc), a
\* path is its prefix followed by its segments, and a reference is its prefix
\* followed by the name it refers to. The maps of paths, schemas, parameters
\* and responses are functions from their keys; what they hold are JSON
\* values.

operationIDMap ==
    LET pairs ==
    {<< <<"ListOrgEnvironments", "_esc">>, <<"ListEnvironments">> >>,
     << <<"CreateEnvironment", "_esc", "_environments">>, <<"CreateEnvironment">> >>,
     << <<"ReadEnvironment", "_esc", "_environments">>, <<"GetEnvironment">> >>,
     << <<"UpdateEnvironment", "_esc", "_environments">>, <<"UpdateEnvironmentYaml">> >>,
     << <<"HeadEnvironment", "_esc", "_environments">>, <<"GetEnvironmentETag">> >>,
     << <<"DeleteEnvironment", "_esc", "_environments">>, <<"DeleteEnvironment">> >>,
     << <<"CheckYAML", "_esc">>, <<"CheckEnvironmentYaml">> >>,
     << <<"DecryptEnvironment", "_esc", "_environments">>, <<"DecryptEnvironment">> >>,
     << <<"OpenEnvironment", "_esc", "_environments">>, <<"OpenEnvironment">> >>,
     << <<"ReadOpenEnvironment", "_esc", "_environments">>, <<"ReadOpenEnvironment">> >>,
     << <<"OpenEnvironment", "_esc", "_environments", "_versions">>, <<"OpenEnvironmentAtVersion">> >>,
     << <<"ReadEnvironment", "_esc", "_environments", "_versions">>, <<"GetEnvironmentAtVersion">> >>,
     << <<"ListEnvironmentTags", "_esc", "_environments">>, <<"ListEnvironmentTags">> >>,
     << <<"CreateEnvironmentTag", "_esc", "_environments">>, <<"CreateEnvironmentTag">> >>,
     << <<"GetEnvironmentTag", "_esc", "_environments">>, <<"GetEnvironmentTag">> >>,
     << <<"UpdateEnvironmentTag", "_esc", "_environments">>, <<"UpdateEnvironmentTag">> >>,
     << <<"DeleteEnvironmentTag", "_esc", "_environments">>, <<"DeleteEnvironmentTag">> >>,
     << <<"ListEnvironmentRevisions", "_esc", "_environments">>, <<"ListEnvironmentRevisions">> >>,
     << <<"ListRevisionTags", "_esc", "_environments", "_versions">>, <<"ListEnvironmentRevisionTags">> >>,
     << <<"CreateRevisionTag", "_esc", "_environments", "_versions", "_tags">>,
        <<"CreateEnvironmentRevisionTag">> >>,
     << <<"ReadRevisionTag", "_esc", "_environments">>, <<"GetEnvironmentRevisionTag">> >>,
     << <<"UpdateRevisionTag", "_esc", "_environments">>, <<"UpdateEnvironmentRevisionTag">> >>,
     << <<"DeleteRevisionTag", "_esc", "_environments">>, <<"DeleteEnvironmentRevisionTag">> >>,
     << <<"CloneEnvironment">>, <<"CloneEnvironment">> >>}
    IN  [id \in {pair[1] : pair \in pairs} |-> (CHOOSE pair \in pairs : pair[1] = id)[2]]

\* Tried in this order, the longest first
suffixesToStrip ==
    << <<"_esc", "_environments", "_versions", "_tags">>,
       <<"_esc", "_environments", "_versions">>,
       <<"_esc", "_environments">>,
       <<"_esc">> >>

HasSuffix(s, suffix) ==
    Len(s) >= Len(suffix) /\ SubSeq(s, Len(s) - Len(suffix) + 1, Len(s)) = suffix

TrimSuffix(s, suffix) == SubSeq(s, 1, Len(s) - Len(suffix))

\* m[key] = val and delete(m, key) on a JSON object
SetKey(obj, key, val) ==
    JObj([k \in DOMAIN obj[2] \cup {key} |-> IF k = key THEN val ELSE obj[2][k]])

DeleteKey(obj, key) == JObj([k \in DOMAIN obj[2] \ {key} |-> obj[2][k]])

SchemasPrefix == "#/components/schemas/"

\* {"$ref": prefix + name}
Ref(prefix, name) == JObj([k \in {"$ref"} |-> JStr(<<prefix, name>>)])

AllMethods == <<"get", "post", "put", "patch", "delete", "head", "options">>

\* The operation of a path item under a method, when it is a map
IsOperation(pi, method) == Kind(Index(pi, method)) = "obj"

\* filterPaths: only the paths with the prefix /api/esc/
filterPaths(paths) ==
    [p \in {q \in DOMAIN paths : q[1] = "/api/esc" /\ Len(q) > 1 /\ q[1] # "/api/preview"}
        |-> paths[p]]

\* stripPrefix: the path keys without /api/esc
stripPrefix(paths) ==
    [p \in {IF q[1] = "/api/esc" THEN Tail(q) ELSE q : q \in DOMAIN paths} |->
        paths[CHOOSE q \in DOMAIN paths : p = (IF q[1] = "/api/esc" THEN Tail(q) ELSE q)]]

OperationIdOf(operation) ==
    IF Kind(Index(operation, "operationId")) = "str" THEN Index(operation, "operationId")[2] ELSE Nil

\* First pass: the explicit map, the tags and the security of every operation
FirstPass(stripped) ==
    LET Change(operation) ==
            LET origID == OperationIdOf(operation)
                remapped == IF origID # Nil /\ origID \in DOMAIN operationIDMap
                            THEN SetKey(operation, "operationId", JStr(operationIDMap[origID]))
                            ELSE operation
                tagged == SetKey(remapped, "tags", JArr(<<JStr("esc")>>))
            IN  SetKey(tagged, "security", JArr(<<JObj([Authorization |-> JArr(<<>>)])>>))
    IN  [p \in DOMAIN stripped |->
            IF Kind(stripped[p]) # "obj" THEN stripped[p]
            ELSE JObj([k \in DOMAIN stripped[p][2] |->
                        IF IsOperation(stripped[p], k)
                            /\ \E i \in 1..Len(AllMethods) : AllMethods[i] = k
                        THEN Change(stripped[p][2][k]) ELSE stripped[p][2][k]])]

\* The operations of the paths: <<path, method>>
OperationsOf(paths) ==
    {pm \in (DOMAIN paths) \X {AllMethods[i] : i \in 1..Len(AllMethods)} :
        Kind(paths[pm[1]]) = "obj" /\ IsOperation(paths[pm[1]], pm[2])}

\* usedIDs after the first pass
UsedAfterFirstPass(stripped) ==
    {operationIDMap[id] :
        id \in {OperationIdOf(stripped[pm[1]][2][pm[2]]) : pm \in OperationsOf(stripped)}
                \cap DOMAIN operationIDMap}

\* The operations in the order the second pass meets them: the paths in the
\* order of the range over the map, the methods of each in the order of the list
RECURSIVE Visits(_, _)
Visits(paths, order) ==
    IF order = <<>> THEN <<>>
    ELSE SelectSeq([i \in 1..Len(AllMethods) |-> <<order[1], AllMethods[i]>>],
                   LAMBDA pm : Kind(paths[pm[1]]) = "obj" /\ IsOperation(paths[pm[1]], pm[2]))
         \o Visits(paths, Tail(order))

\* The id the second pass gives an operation that the explicit map left alone
StripSuffix(origID, usedIDs) ==
    LET matching == {i \in 1..Len(suffixesToStrip) : HasSuffix(origID, suffixesToStrip[i])}
    IN  IF matching = {} THEN origID
        ELSE LET first == CHOOSE i \in matching : \A j \in matching : i <= j
                 candidate == TrimSuffix(origID, suffixesToStrip[first])
             IN  IF candidate \notin usedIDs THEN candidate ELSE origID

\* Second pass: an operation whose id is in usedIDs is skipped, the others
\* get their suffix stripped unless the shorter id is in use
RECURSIVE SecondPass(_, _, _)
SecondPass(paths, usedIDs, visits) ==
    IF visits = <<>> THEN paths
    ELSE LET p == visits[1][1]
             method == visits[1][2]
             operation == paths[p][2][method]
             origID == OperationIdOf(operation)
         IN  IF origID = Nil \/ origID \in usedIDs
             THEN SecondPass(paths, usedIDs, Tail(visits))
             ELSE LET newID == StripSuffix(origID, usedIDs)
                      renamed == SetKey(operation, "operationId", JStr(newID))
                  IN  SecondPass([paths EXCEPT ![p] = SetKey(@, method, renamed)],
                                 usedIDs \cup {newID}, Tail(visits))

\* A response, or a media type, with a schema
JsonContent(schema) ==
    JObj([description |-> JStr("Success"),
          content |-> JObj([k \in {"application/json"} |-> JObj([schema |-> schema])])])

\* Step 6.5: the request body of CheckEnvironmentYaml when it has none
fixMissingRequestBodies(paths) ==
    LET Change(operation) ==
            IF OperationIdOf(operation) = <<"CheckEnvironmentYaml">>
                /\ ~HasKey(operation, "requestBody")
            THEN SetKey(operation, "requestBody",
                        JObj([description |-> JStr("Environment Yaml content"),
                              required |-> JBool(TRUE),
                              content |-> JObj([k \in {"application/x-yaml"} |->
                                                JObj([schema |-> JObj([type |-> JStr("string")])])])]))
            ELSE operation
    IN  [p \in DOMAIN paths |->
            IF Kind(paths[p]) # "obj" THEN paths[p]
            ELSE JObj([k \in DOMAIN paths[p][2] |->
                        IF IsOperation(paths[p], k) /\ \E i \in 1..5 : AllMethods[i] = k
                        THEN Change(paths[p][2][k]) ELSE paths[p][2][k]])]

\* Step 7: ReadOpenEnvironment answers 200 with an EscEnvironment
overrideReadOpenEnvironmentResponse(paths) ==
    LET Change(operation) ==
            IF OperationIdOf(operation) # <<"ReadOpenEnvironment">> THEN operation
            ELSE IF Kind(Index(operation, "responses")) # "obj" THEN operation
            ELSE SetKey(operation, "responses",
                        SetKey(Index(operation, "responses"), "200",
                               JsonContent(Ref(SchemasPrefix, "EscEnvironment"))))
    IN  [p \in DOMAIN paths |->
            IF Kind(paths[p]) # "obj" THEN paths[p]
            ELSE JObj([k \in DOMAIN paths[p][2] |->
                        IF IsOperation(paths[p], k) /\ \E i \in 1..6 : AllMethods[i] = k
                        THEN Change(paths[p][2][k]) ELSE paths[p][2][k]])]

\* The paths whose get operation is ReadOpenEnvironment: the range over the
\* map stops at the first it meets
ReadOpenPaths(paths) ==
    {p \in DOMAIN paths :
        /\ Kind(paths[p]) = "obj" /\ IsOperation(paths[p], "get")
        /\ OperationIdOf(paths[p][2]["get"]) = <<"ReadOpenEnvironment">>}

\* strings.Replace(readOpenPath, "/open/{open", "/open//{open", 1); the
\* segment /{openSessionID} is the one that starts with /{open
ReplaceOpen(path) ==
    LET at == {i \in 1..(Len(path) - 1) : path[i] = "/open" /\ path[i + 1] = "/{openSessionID}"}
    IN  IF at = {} THEN path
        ELSE LET i == CHOOSE j \in at : \A k \in at : j <= k
             IN  SubSeq(path, 1, i) \o <<"/">> \o SubSeq(path, i + 1, Len(path))

\* The parameters of a list that are in the path
PathParams(params) ==
    IF Kind(params) # "arr" THEN <<>>
    ELSE SelectSeq(params[2], LAMBDA q : Kind(q) = "obj" /\ Index(q, "in") = JStr("path"))

\* Step 8: the path with the double slash, for reading one property
synthesizeReadOpenEnvironmentProperty(paths, readOpenPath) ==
    IF readOpenPath = Nil THEN paths
    ELSE LET newPath == ReplaceOpen(readOpenPath)
             readOpenPathItem == paths[readOpenPath]
             getOp == readOpenPathItem[2]["get"]
             pathParams == PathParams(Index(readOpenPathItem, "parameters"))
                            \o PathParams(Index(getOp, "parameters"))
                            \o <<JObj([name |-> JStr("property"), in |-> JStr("query"),
                                       required |-> JBool(TRUE),
                                       schema |-> JObj([type |-> JStr("string")])])>>
             newPathItem ==
                JObj([parameters |-> JArr(pathParams),
                      get |-> JObj([tags |-> JArr(<<JStr("esc")>>),
                                    operationId |-> JStr(<<"ReadOpenEnvironmentProperty">>),
                                    summary |-> JStr("Read an open environment property"),
                                    security |-> JArr(<<JObj([Authorization |-> JArr(<<>>)])>>),
                                    responses |->
                                        JObj(("200" :> JsonContent(Ref(SchemasPrefix, "EscValue")))
                                             @@ ("401" :> Ref("#/components/responses/", "Unauthorized"))
                                             @@ ("404" :> Ref("#/components/responses/", "NotFound"))
                                             @@ ("500" :> Ref("#/components/responses/", "InternalServerError"))
                                             @@ ("default" :> Ref("#/components/responses/", "InternalServerError")))])])
         IN  [p \in DOMAIN paths \cup {newPath} |-> IF p = newPath THEN newPathItem ELSE paths[p]]

\* collectRefs: every $ref that is a string, anywhere in the data
RECURSIVE collectRefs(_)
collectRefs(data) ==
    IF Kind(data) = "obj"
    THEN (IF Kind(Index(data, "$ref")) = "str" THEN {Index(data, "$ref")[2]} ELSE {})
         \cup UNION {collectRefs(data[2][k]) : k \in DOMAIN data[2]}
    ELSE IF Kind(data) = "arr"
    THEN UNION {collectRefs(data[2][i]) : i \in 1..Len(data[2])}
    ELSE {}

\* collectRefs of a map of paths or of components
CollectRefsOfMap(m) == UNION {collectRefs(m[k]) : k \in DOMAIN m}

\* The names the references with a prefix refer to
NamesFromRefs(refs, prefix) == {ref[2] : ref \in {r \in refs : r[1] = prefix}} \ {""}

schemaNameFromRef(ref) == IF ref[1] = SchemasPrefix THEN ref[2] ELSE ""

\* resolve: the names visited from the names given, through the references
\* of the components that exist
RECURSIVE Resolve(_, _, _, _)
Resolve(names, visited, allComponents, prefix) ==
    IF names \subseteq visited THEN visited
    ELSE LET new == names \ visited
             nested == UNION {NamesFromRefs(collectRefs(allComponents[n]), prefix) :
                                n \in new \cap DOMAIN allComponents}
         IN  Resolve(nested, visited \cup new, allComponents, prefix)

collectReferencedSchemas(paths, allSchemas) ==
    LET needed == {schemaNameFromRef(ref) : ref \in CollectRefsOfMap(paths)} \ {""}
        visited == Resolve(needed, {}, allSchemas, SchemasPrefix)
    IN  [n \in visited \cap DOMAIN allSchemas |-> allSchemas[n]]

collectReferencedComponents(paths, allComponents, prefix) ==
    LET visited == Resolve(NamesFromRefs(CollectRefsOfMap(paths), prefix), {}, allComponents, prefix)
    IN  [n \in visited \cap DOMAIN allComponents |-> allComponents[n]]

\* The schemas the collected components refer to, added to referencedSchemas;
\* the schemas already there count as visited
collectTransitiveSchemasFromComponents(components, allSchemas, referencedSchemas) ==
    LET names == {schemaNameFromRef(ref) : ref \in CollectRefsOfMap(components)} \ {""}
        visited == Resolve(names, DOMAIN referencedSchemas, allSchemas, SchemasPrefix)
        added == (visited \ DOMAIN referencedSchemas) \cap DOMAIN allSchemas
    IN  [n \in DOMAIN referencedSchemas \cup added |->
            IF n \in added THEN allSchemas[n] ELSE referencedSchemas[n]]

\* What a fix does to the property it is made to: "freeForm" deletes its
\* type, "itemsFreeForm" the type of its items, "nullable" sets nullable
ChangeProperty(prop, fix) ==
    CASE fix = "freeForm" -> DeleteKey(prop, "type")
      [] fix = "itemsFreeForm" ->
            IF Kind(Index(prop, "items")) = "obj"
            THEN SetKey(prop, "items", DeleteKey(prop[2]["items"], "type")) ELSE prop
      [] OTHER -> SetKey(prop, "nullable", JBool(TRUE))

\* doFix: the fix made to the property of a map that has it
doFix(obj, propName, fix) ==
    IF Kind(Index(obj, "properties")) = "obj"
        /\ Kind(Index(Index(obj, "properties"), propName)) = "obj"
    THEN SetKey(obj, "properties",
                SetKey(obj[2]["properties"], propName,
                       ChangeProperty(obj[2]["properties"][2][propName], fix)))
    ELSE obj

\* The fix made to the schema of that name and to every map in its allOf
FixSchemaProperty(schemas, schemaName, propName, fix) ==
    IF ~(schemaName \in DOMAIN schemas /\ Kind(schemas[schemaName]) = "obj") THEN schemas
    ELSE LET fixed == doFix(schemas[schemaName], propName, fix)
             allOf == Index(fixed, "allOf")
         IN  [schemas EXCEPT ![schemaName] =
                IF Kind(allOf) # "arr" THEN fixed
                ELSE SetKey(fixed, "allOf",
                            JArr([i \in 1..Len(allOf[2]) |->
                                    IF Kind(allOf[2][i]) = "obj"
                                    THEN doFix(allOf[2][i], propName, fix) ELSE allOf[2][i]]))]

setPropertyFreeForm(schemas, schemaName, propName) ==
    FixSchemaProperty(schemas, schemaName, propName, "freeForm")

setPropertyArrayItemsFreeForm(schemas, schemaName, propName) ==
    FixSchemaProperty(schemas, schemaName, propName, "itemsFreeForm")

setPropertyNullable(schemas, schemaName, propName) ==
    FixSchemaProperty(schemas, schemaName, propName, "nullable")

renameProperty(schema, oldName, newName) ==
    LET doRename(obj) ==
            LET renamed == IF HasKey(Index(obj, "properties"), oldName)
                           THEN SetKey(obj, "properties",
                                       DeleteKey(SetKey(obj[2]["properties"], newName,
                                                        obj[2]["properties"][2][oldName]), oldName))
                           ELSE obj
                required == Index(renamed, "required")
            IN  IF Kind(required) # "arr" THEN renamed
                ELSE SetKey(renamed, "required",
                            JArr([i \in 1..Len(required[2]) |->
                                    IF required[2][i] = JStr(oldName)
                                    THEN JStr(newName) ELSE required[2][i]]))
        fixed == doRename(schema)
        allOf == Index(fixed, "allOf")
    IN  IF Kind(allOf) # "arr" THEN fixed
        ELSE SetKey(fixed, "allOf",
                    JArr([i \in 1..Len(allOf[2]) |->
                            IF Kind(allOf[2][i]) = "obj" THEN doRename(allOf[2][i]) ELSE allOf[2][i]]))

fixCodegenConflicts(schemas) ==
    IF "WebhookResponse" \in DOMAIN schemas /\ Kind(schemas["WebhookResponse"]) = "obj"
    THEN [schemas EXCEPT !["WebhookResponse"] = renameProperty(@, "hasSecret", "hasSecretValue")]
    ELSE schemas

\* Every property, of every schema and of every map in its allOf, that is the
\* reference, or whose items or additionalProperties are, loses that $ref
makeAllSchemaRefsFreeForm(schemas, ref) ==
    LET IsRef(p) == Kind(Index(p, "$ref")) = "str" /\ Index(p, "$ref")[2] = ref
        ClearIn(p, key) ==
            IF Kind(Index(p, key)) = "obj" /\ IsRef(p[2][key])
            THEN SetKey(p, key, DeleteKey(p[2][key], "$ref")) ELSE p
        clearRef(p) ==
            IF Kind(p) # "obj" THEN p
            ELSE ClearIn(ClearIn(IF IsRef(p) THEN DeleteKey(p, "$ref") ELSE p, "items"),
                         "additionalProperties")
        clearProps(obj) ==
            IF Kind(Index(obj, "properties")) # "obj" THEN obj
            ELSE SetKey(obj, "properties",
                        JObj([k \in DOMAIN obj[2]["properties"][2] |->
                                clearRef(obj[2]["properties"][2][k])]))
        clearSchema(s) ==
            LET fixed == clearProps(s)
                allOf == Index(fixed, "allOf")
            IN  IF Kind(allOf) # "arr" THEN fixed
                ELSE SetKey(fixed, "allOf",
                            JArr([i \in 1..Len(allOf[2]) |->
                                    IF Kind(allOf[2][i]) = "obj"
                                    THEN clearProps(allOf[2][i]) ELSE allOf[2][i]]))
    IN  [n \in DOMAIN schemas |->
            IF Kind(schemas[n]) = "obj" THEN clearSchema(schemas[n]) ELSE schemas[n]]

fixSchemaTypes(schemas) ==
    LET s1 == setPropertyFreeForm(schemas, "EscValue", "value")
        s2 == setPropertyFreeForm(s1, "EscSchemaSchema", "const")
        s3 == setPropertyFreeForm(s2, "EscSchemaSchema", "default")
        s4 == setPropertyArrayItemsFreeForm(s3, "EscSchemaSchema", "enum")
        s5 == setPropertyArrayItemsFreeForm(s4, "EscSchemaSchema", "examples")
        s6 == setPropertyFreeForm(s5, "EscExpr", "literal")
        s7 == makeAllSchemaRefsFreeForm(s6, <<SchemasPrefix, "EscSchemaSchema">>)
    IN  setPropertyNullable(s7, "EnvironmentFunctionSummary", "rotationPaths")

\* The schemas the tool has of its own (their examples left out: they hold
\* no reference)
LocalSchemas ==
    [n \in {"EnvironmentDefinition", "EnvironmentDefinitionValues", "Error", "Reference"} |->
        CASE n = "EnvironmentDefinition" ->
                JObj([type |-> JStr("object"),
                      properties |-> JObj([imports |-> JObj([type |-> JStr("array"),
                                                             items |-> JObj([type |-> JStr("string")])]),
                                           values |-> Ref(SchemasPrefix, "EnvironmentDefinitionValues")])])
          [] n = "EnvironmentDefinitionValues" ->
                JObj([type |-> JStr("object"),
                      properties |->
                        JObj([pulumiConfig |-> JObj([type |-> JStr("object"),
                                                     additionalProperties |-> JBool(TRUE)]),
                              environmentVariables |->
                                JObj([type |-> JStr("object"),
                                      additionalProperties |-> JObj([type |-> JStr("string")])]),
                              files |-> JObj([type |-> JStr("object"),
                                              additionalProperties |-> JObj([type |-> JStr("string")])])]),
                      additionalProperties |-> JObj([type |-> JStr("object")])])
          [] n = "Error" ->
                JObj([type |-> JStr("object"),
                      properties |-> JObj([message |-> JObj([type |-> JStr("string")]),
                                           code |-> JObj([type |-> JStr("integer")])]),
                      required |-> JArr(<<JStr("message"), JStr("code")>>)])
          [] OTHER ->
                JObj([type |-> JStr("object"),
                      required |-> JArr(<<JStr("$ref")>>),
                      properties |-> JObj([k \in {"$ref"} |->
                                            JObj([type |-> JStr("string"),
                                                  format |-> JStr("uri-reference")])])])]

\* Step 10: the local schemas the collected ones do not have
injectLocalSchemas(schemas) ==
    [n \in DOMAIN schemas \cup DOMAIN LocalSchemas |->
        IF n \in DOMAIN schemas THEN schemas[n] ELSE LocalSchemas[n]]

\* <<"spec", paths, schemas, parameters, responses>>: the paths and the three
\* maps of the components of a document
buildOutput(paths, schemas, parameters, responses) ==
    <<"spec", paths, schemas, parameters, responses>>

\* Steps 1 to 7 for one order of the second pass over the paths
RemapOperations(spec, order) ==
    LET stripped == stripPrefix(filterPaths(spec[2]))
        first == FirstPass(stripped)
        second == SecondPass(first, UsedAfterFirstPass(stripped), Visits(first, order))
    IN  overrideReadOpenEnvironmentResponse(fixMissingRequestBodies(second))

\* filterSpec, for one order of the second pass and for the ReadOpenEnvironment
\* path the search of step 8 meets first (Nil when there is none)
filterSpec(spec, order, readOpenPath) ==
    LET stripped == synthesizeReadOpenEnvironmentProperty(RemapOperations(spec, order), readOpenPath)
        allSchemas == spec[3]
        allParameters == spec[4]
        allResponses == spec[5]
        referencedSchemas ==
            injectLocalSchemas(fixSchemaTypes(fixCodegenConflicts(
                collectReferencedSchemas(stripped, allSchemas))))
        referencedParams == collectReferencedComponents(stripped, allParameters, "#/components/parameters/")
        referencedResps == collectReferencedComponents(stripped, allResponses, "#/components/responses/")
        withResps == collectTransitiveSchemasFromComponents(referencedResps, allSchemas,
                                                            referencedSchemas)
        withParams == collectTransitiveSchemasFromComponents(referencedParams, allSchemas,
                                                             withResps)
    IN  buildOutput(stripped, withParams, referencedParams, referencedResps)

\* The documents given to the tool. Every reference of a document refers to
\* a component the document has.
EnvironmentsPath == <<"/api/esc", "/environments/{orgName}">>
OpenPath ==
    <<"/api/esc", "/environments/{orgName}/{projectName}/{envName}", "/open", "/{openSessionID}">>
CheckPath == <<"/api/esc", "/environments/{orgName}/yaml/check">>
PreviewPath == <<"/api/preview", "/environments/{orgName}">>

\* An operation that answers 200 with a schema and 404 with a response
Operation(id, schemaName) ==
    JObj([operationId |-> JStr(id),
          parameters |-> JArr(<<Ref("#/components/parameters/", "OrgName"),
                                JObj([name |-> JStr("envName"), in |-> JStr("path"),
                                      schema |-> JObj([type |-> JStr("string")])])>>),
          responses |-> JObj(("200" :> JsonContent(Ref(SchemasPrefix, schemaName)))
                             @@ ("404" :> Ref("#/components/responses/", "NotFound")))])

OperationIds ==
    {<<"ListOrgEnvironments", "_esc">>, <<"ListEnvironments">>,
     <<"ReadOpenEnvironment", "_esc", "_environments">>,
     <<"ReadOpenEnvironmentProperty", "_esc", "_environments">>,
     <<"Foo", "_esc">>, <<"Foo">>, <<"CheckYAML", "_esc">>}

ObjectOf(properties) == JObj([type |-> JStr("object"), properties |-> properties])

\* The schemas of the service: Page refers to Environment, Environment to
\* Settings, Settings to EscSchemaSchema; EscEnvironment refers to EscValue and
\* EscValue to itself; Error refers to ErrorDetail
ServiceSchemas ==
    [n \in {"Page", "Environment", "Settings", "EscSchemaSchema", "Unused", "OrgNameType",
            "Error", "ErrorDetail"} |->
        CASE n = "Page" ->
                ObjectOf(JObj([items |-> JObj([type |-> JStr("array"),
                                               items |-> Ref(SchemasPrefix, "Environment")])]))
          [] n = "Environment" ->
                JObj([allOf |-> JArr(<<ObjectOf(JObj([settings |-> Ref(SchemasPrefix, "Settings")]))>>)])
          [] n = "Settings" ->
                ObjectOf(JObj([schema |-> Ref(SchemasPrefix, "EscSchemaSchema"),
                               name |-> JObj([type |-> JStr("string")])]))
          [] n = "EscSchemaSchema" ->
                ObjectOf(JObj([const |-> JObj([type |-> JStr("object")]),
                               enum |-> JObj([type |-> JStr("array"),
                                              items |-> JObj([type |-> JStr("object")])])]))
          [] n = "Error" ->
                ObjectOf(JObj([message |-> JObj([type |-> JStr("string")]),
                               detail |-> Ref(SchemasPrefix, "ErrorDetail")]))
          [] OTHER -> ObjectOf(JObj([name |-> JObj([type |-> JStr("string")])]))]

EscSchemas ==
    [n \in {"EscEnvironment", "EscValue"} |->
        IF n = "EscEnvironment"
        THEN ObjectOf(JObj([properties |-> JObj([type |-> JStr("object"),
                                                 additionalProperties |-> Ref(SchemasPrefix, "EscValue")])]))
        ELSE ObjectOf(JObj([value |-> JObj([type |-> JStr("object")]),
                            trace |-> Ref(SchemasPrefix, "EscValue")]))]

ServiceResponses ==
    [n \in {"NotFound", "Unauthorized", "InternalServerError"} |->
        JsonContent(Ref(SchemasPrefix, "Error"))]

\* The parameter OrgName, its schema a string or a reference
ServiceParameters(typed) ==
    [n \in {"OrgName"} |->
        JObj([name |-> JStr("orgName"), in |-> JStr("path"),
              schema |-> IF typed THEN Ref(SchemasPrefix, "OrgNameType")
                         ELSE JObj([type |-> JStr("string")])])]

PathItem(method, operation) == JObj([k \in {method} |-> operation])

\* Documents with every choice of distinct operationIds for the three paths
\* under /api/esc
DocsOfIds ==
    {<<"spec",
       [p \in {EnvironmentsPath, OpenPath, CheckPath, PreviewPath} |->
            CASE p = EnvironmentsPath -> PathItem("get", Operation(ids[1], "Page"))
              [] p = OpenPath -> PathItem("get", Operation(ids[2], "Settings"))
              [] p = CheckPath -> PathItem("get", Operation(ids[3], "Settings"))
              [] OTHER -> PathItem("get", Operation(<<"ListPreviews">>, "Unused"))],
       [n \in DOMAIN ServiceSchemas \cup DOMAIN EscSchemas |->
            IF n \in DOMAIN EscSchemas THEN EscSchemas[n] ELSE ServiceSchemas[n]],
       ServiceParameters(FALSE),
       ServiceResponses>> :
        ids \in {s \in OperationIds \X OperationIds \X OperationIds :
                    s[1] # s[2] /\ s[1] # s[3] /\ s[2] # s[3]}}

\* Documents with every choice of what the operations refer to, with and
\* without a ReadOpenEnvironment operation, the schemas EscEnvironment and
\* EscValue, and a schema for the parameter
DocsOfSchemas ==
    {<<"spec",
       [p \in {EnvironmentsPath, OpenPath, CheckPath, PreviewPath} |->
            CASE p = EnvironmentsPath ->
                    PathItem("get", Operation(<<"ListOrgEnvironments", "_esc">>, root))
              [] p = OpenPath ->
                    PathItem("get", Operation(IF open
                                              THEN <<"ReadOpenEnvironment", "_esc", "_environments">>
                                              ELSE <<"Foo", "_esc">>, "Settings"))
              [] p = CheckPath -> PathItem("post", Operation(<<"CheckYAML", "_esc">>, "Error"))
              [] OTHER -> PathItem("get", Operation(<<"ListPreviews">>, "Unused"))],
       [n \in DOMAIN ServiceSchemas \cup (IF esc THEN DOMAIN EscSchemas ELSE {}) |->
            IF n \in DOMAIN ServiceSchemas THEN ServiceSchemas[n] ELSE EscSchemas[n]],
       ServiceParameters(typed),
       ServiceResponses>> :
        root \in {"Page", "Environment", "Settings"}, open \in BOOLEAN, esc \in BOOLEAN,
        typed \in BOOLEAN}

FilterInputs == DocsOfIds \cup DocsOfSchemas

\* The orders a range over a set of keys can take
Orders(keys) ==
    {s \in SeqsUpTo(keys, Cardinality(keys)) :
        Len(s) = Cardinality(keys) /\ \A i, j \in 1..Len(s) : i # j => s[i] # s[j]}

GoFilterSpec ==
    /\ op = "idle"
    /\ op' = "filterSpec"
    /\ \E spec \in FilterInputs :
        \E order \in Orders(DOMAIN stripPrefix(filterPaths(spec[2]))) :
            LET candidates == ReadOpenPaths(RemapOperations(spec, order))
            IN  \E readOpenPath \in (IF candidates = {} THEN {Nil} ELSE candidates) :
                    /\ given' = <<"FilterCall", spec, order>>
                    /\ returned' = filterSpec(spec, order, readOpenPath)
    /\ UNCHANGED <<wire, before, held, out, propertyPath, found, rules, lastConfig, payload,
                   response, result>>

\* The operationIds of the operations of a map of paths, one for each operation
OperationIdsOf(paths) ==
    [pm \in OperationsOf(paths) |-> OperationIdOf(paths[pm[1]][2][pm[2]])]

Distinct(f) == \A a, b \in DOMAIN f : a # b => f[a] # f[b]

\* C29: when the operationIds of the document given to filterSpec are
\* pairwise distinct, so are the operationIds of the operations it retains,
\* whatever the order of the range over the paths.
C29_OperationIdsStayDistinct ==
    (op = "filterSpec" /\ Distinct(OperationIdsOf(given[2][2]))) =>
        Distinct(OperationIdsOf(returned[2]))

\* The names of the schemas referred to from anywhere in a document
SchemaRefsOf(spec) ==
    {schemaNameFromRef(ref) :
        ref \in CollectRefsOfMap(spec[2]) \cup CollectRefsOfMap(spec[3])
                \cup CollectRefsOfMap(spec[4]) \cup CollectRefsOfMap(spec[5])} \ {""}

Closed(spec) == SchemaRefsOf(spec) \subseteq DOMAIN spec[3]

\* C30: every reference to a schema in a path, a parameter, a response or a
\* schema of the document filterSpec returns refers to a schema of that
\* document.
C30_SchemasClosedUnderRefs ==
    op = "filterSpec" => Closed(returned)


-----------------------------------------------------------------------------
(* The helpers, each called on its own *)

InitHelpers ==
    /\ wire = Nil
    /\ given = Nil /\ returned = Nil
    /\ op = "idle"
    /\ before = Nil /\ held = Nil /\ out = Nil
    /\ propertyPath = <<>> /\ found = Nil
    /\ rules = <<>> /\ lastConfig = Nil /\ payload = Nil /\ response = Nil /\ result = Nil

NextHelpers ==
    \/ CsGetDefaultAccessToken
    \/ CsGetEscApiUrl
    \/ GoNewCustomBackendConfiguration
    \/ GoCheckEnvironmentYaml
    \/ CsCheckEnvironmentYamlAsync
    \/ TsCheckEnvironmentYaml
    \/ GoListEnvironmentChangeGates
    \/ GoDecryptEnvironment
    \/ GoFilterSpec

SpecHelpers == InitHelpers /\ [][NextHelpers]_vars

====
